---- MODULE Spec2Model ----
(***************************************************************************)
(* Model of the token stream of lib/token.cpp: the doubly linked sequence  *)
(* of Token objects, their bracket links, and the AST overlay kept in      *)
(* TokenImpl.                                                              *)
(*                                                                         *)
(* A Token object is a slot of a bounded pool (its address).  `live` is    *)
(* the set of slots that currently hold a constructed Token.  `delete`     *)
(* takes a slot out of `live`; `new Token` takes any slot that is not      *)
(* live, so an address may be reused and a reference that was left         *)
(* dangling may come to designate a later Token.                           *)
(*                                                                         *)
(* The classification of a token (update_property_info) and its list of    *)
(* facts (addValue with removeContradictions) read one token only and are  *)
(* modelled on one token looked at on its own.                             *)
(*                                                                         *)
(* Token::Match is modelled character by character, one round of its loop  *)
(* per step, on a pattern and on the run of tokens that begins at the      *)
(* token it is given.                                                      *)
(***************************************************************************)
EXTENDS Integers, Sequences, FiniteSets, TLC

\* ---------------------------------------------------------------- bounds
MaxTokens == 4      \* size of the pool of Token slots
MaxCount  == 2      \* largest count passed to deleteNext / deletePrevious
MaxAstTokens == 3   \* length of the stream the AST specifications start from
MaxLinked == 3      \* longest stream of the specifications SpecLink, SpecLinkOps
MaxVarId == 1       \* largest variable id given to a token
MaxFacts == 2       \* addValue is called on lists shorter than this in SpecFacts
MaxRun == 2         \* longest run of tokens given to Token::Match
MaxBody == 3        \* most tokens behind the first '<' of a generated token list
MaxText == 3        \* longest token list given to stringifyList

\* constants of the code
MaxValues == 10     \* mImpl->mValues->size() >= 10U
MaxPasses == 4      \* for (int i = 0; i < 4; i++) in removeContradictions

Nil    == 0
Tokens == 1..MaxTokens
Ptr    == Tokens \cup {Nil}
\* spellings of the first token of a list: the empty spelling and a statement token
Strs   == {"", ";"}
\* spellings given to insertToken
InsertStrs == {";"}

VARIABLES
    live,            \* slots holding a constructed Token
    mNext,           \* Token::mNext
    mPrevious,       \* Token::mPrevious
    mLink,           \* Token::mLink
    mStr,            \* Token::mStr
    mAstParent,      \* TokenImpl::mAstParent
    mAstOperand1,    \* TokenImpl::mAstOperand1
    mAstOperand2,    \* TokenImpl::mAstOperand2
    mProgressValue,  \* TokenImpl::mProgressValue
    mFileIndex,      \* TokenImpl::mFileIndex
    mLineNumber,     \* TokenImpl::mLineNumber
    front,           \* TokensFrontBack::front
    back,            \* TokensFrontBack::back
    last,            \* name of the member function called last
    thrown,          \* how that call ended: "none", "InternalError", "segv"
    relinked,        \* createMutualLinks was called on a token that carried a link
    unlinked,        \* the last call deleted a token and cleared its partner's link
    token,           \* one Token looked at on its own: text, ids, kind, flags
    mValues,         \* TokenImpl::mValues of that token, the list of its facts
    returned,        \* what the last call on that token returned
    superseded,      \* what the known fact given to the last addValue cleared
    decided,         \* the statement of addValue that ended the last call
    pattern,         \* Token::Match: the characters of pattern[]
    varid,           \* Token::Match: the argument varid
    run,             \* the tokens from the token given to Match to the end of the list
    pp,              \* Token::Match: p, as an index into pattern
    cur,             \* Token::Match: tok, as an index into run; behind run it is nullptr
    matched,         \* "idle", "running", or how Match ended
    stream,          \* a token list read as a whole: spelling and link of each token
    self,            \* the place in stream of the token a function is called on
    found,           \* the place of the token that function returned, 0 for nullptr
    options,         \* stringifyList: the options it is given
    text             \* stringifyList: the characters of the string it returned

vars == <<live, mNext, mPrevious, mLink, mStr, mAstParent, mAstOperand1,
          mAstOperand2, mProgressValue, mFileIndex, mLineNumber, front, back,
          last, thrown, relinked, unlinked, token, mValues, returned,
          superseded, decided, pattern, varid, run, pp, cur, matched,
          stream, self, found, options, text>>

\* the state of the token looked at on its own
nodeVars == <<token, mValues, returned, superseded, decided>>

\* the state of a call of Token::Match
matchVars == <<pattern, varid, run, pp, cur, matched>>

\* the state of a call that reads a token list
streamVars == <<stream, self, found, options, text>>

\* The heap as one value, so that member functions compose as the code calls them.
Heap ==
    [live |-> live, mNext |-> mNext, mPrevious |-> mPrevious, mLink |-> mLink,
     mStr |-> mStr, mAstParent |-> mAstParent, mAstOperand1 |-> mAstOperand1,
     mAstOperand2 |-> mAstOperand2, mProgressValue |-> mProgressValue,
     mFileIndex |-> mFileIndex, mLineNumber |-> mLineNumber,
     front |-> front, back |-> back]

\* the next state's heap is h
Store(h) ==
    /\ live' = h.live
    /\ mNext' = h.mNext
    /\ mPrevious' = h.mPrevious
    /\ mLink' = h.mLink
    /\ mStr' = h.mStr
    /\ mAstParent' = h.mAstParent
    /\ mAstOperand1' = h.mAstOperand1
    /\ mAstOperand2' = h.mAstOperand2
    /\ mProgressValue' = h.mProgressValue
    /\ mFileIndex' = h.mFileIndex
    /\ mLineNumber' = h.mLineNumber
    /\ front' = h.front
    /\ back' = h.back

\* ------------------------------------------------- construction, destruction

\* Token::Token / TokenImpl(): every pointer null, spelling empty
TokenCtor(h, t) ==
    [h EXCEPT !.live = @ \cup {t},
              !.mNext[t] = Nil, !.mPrevious[t] = Nil, !.mLink[t] = Nil,
              !.mStr[t] = "",
              !.mAstParent[t] = Nil, !.mAstOperand1[t] = Nil, !.mAstOperand2[t] = Nil,
              !.mProgressValue[t] = 0, !.mFileIndex[t] = 0, !.mLineNumber[t] = 0]

\* Token::~Token: delete mImpl and free the object.  Nothing else is touched:
\* references other tokens hold to t stay as they are.  The freed slot's own
\* fields are no longer program state and are cleared.
TokenDtor(h, t) ==
    [h EXCEPT !.live = @ \ {t},
              !.mNext[t] = Nil, !.mPrevious[t] = Nil, !.mLink[t] = Nil,
              !.mStr[t] = "",
              !.mAstParent[t] = Nil, !.mAstOperand1[t] = Nil, !.mAstOperand2[t] = Nil,
              !.mProgressValue[t] = 0, !.mFileIndex[t] = 0, !.mLineNumber[t] = 0]

\* ------------------------------------------------------ setters of token.h
next(h, t, v)     == [h EXCEPT !.mNext[t] = v]
previous(h, t, v) == [h EXCEPT !.mPrevious[t] = v]
link(h, t, v)     == [h EXCEPT !.mLink[t] = v]
str(h, t, s)      == [h EXCEPT !.mStr[t] = s]

\* --------------------------------------------------------------- traversal

\* the tokens t, t->next(), ... up to and including e; fuel bounds the walk
RECURSIVE Walk(_, _, _, _)
Walk(h, t, e, fuel) ==
    IF t = Nil \/ fuel = 0 THEN {}
    ELSE IF t = e THEN {t}
    ELSE {t} \cup Walk(h, h.mNext[t], e, fuel - 1)

\* e is t or comes after t in the stream
Reaches(h, t, e) == e \in Walk(h, t, e, MaxTokens)

\* the tokens of the range t..e (e reachable from t)
Range(h, t, e) == Walk(h, t, e, MaxTokens)

\* ------------------------------------------------- Token::deleteNext (273-291)

\* the deletion without the #8154 step
UnlinkPartnerSkip(h, n) == h

\* the #8154 step: a token about to be deleted destroys the link to itself
UnlinkPartner(h, n) ==
    IF h.mLink[n] # Nil /\ h.mLink[h.mLink[n]] = n
    THEN link(h, h.mLink[n], Nil)
    ELSE h

RECURSIVE deleteNextLoop(_, _, _)
deleteNextLoop(h, t, count) ==
    IF h.mNext[t] # Nil /\ count > 0
    THEN LET n  == h.mNext[t]
             h1 == UnlinkPartner(h, n)
             h2 == [h1 EXCEPT !.mNext[t] = h1.mNext[n]]
         IN  deleteNextLoop(TokenDtor(h2, n), t, count - 1)
    ELSE h

\* deleteNext without mNext->previous(this)
deleteNextNoPrevFix(h, t, count) ==
    LET h1 == deleteNextLoop(h, t, count)
    IN  IF h1.mNext[t] # Nil THEN h1 ELSE [h1 EXCEPT !.back = t]

deleteNext(h, t, count) ==
    LET h1 == deleteNextLoop(h, t, count)
    IN  IF h1.mNext[t] # Nil
        THEN previous(h1, h1.mNext[t], t)
        ELSE [h1 EXCEPT !.back = t]

\* --------------------------------------------- Token::deletePrevious (293-311)
RECURSIVE deletePreviousLoop(_, _, _)
deletePreviousLoop(h, t, count) ==
    IF h.mPrevious[t] # Nil /\ count > 0
    THEN LET p  == h.mPrevious[t]
             h1 == UnlinkPartner(h, p)
             h2 == [h1 EXCEPT !.mPrevious[t] = h1.mPrevious[p]]
         IN  deletePreviousLoop(TokenDtor(h2, p), t, count - 1)
    ELSE h

deletePrevious(h, t, count) ==
    LET h1 == deletePreviousLoop(h, t, count)
    IN  IF h1.mPrevious[t] # Nil
        THEN next(h1, h1.mPrevious[t], t)
        ELSE [h1 EXCEPT !.front = t]

\* ------------------------------------------------ Token::swapWithNext (313-337)
\* std::swap of the two values f[a], f[b]
SwapAt(f, a, b) == [f EXCEPT ![a] = f[b], ![b] = f[a]]

swapWithNext(h, t) ==
    IF h.mNext[t] = Nil THEN h
    ELSE LET n  == h.mNext[t]
             \* swap mStr and mImpl (the AST pointers and the position live in mImpl)
             h1 == [h EXCEPT !.mStr = SwapAt(@, t, n),
                             !.mAstParent = SwapAt(@, t, n),
                             !.mAstOperand1 = SwapAt(@, t, n),
                             !.mAstOperand2 = SwapAt(@, t, n),
                             !.mProgressValue = SwapAt(@, t, n),
                             !.mFileIndex = SwapAt(@, t, n),
                             !.mLineNumber = SwapAt(@, t, n)]
             \* if (mNext->mLink) mNext->mLink->mLink = this;
             h2 == IF h1.mLink[n] # Nil
                   THEN [h1 EXCEPT !.mLink[h1.mLink[n]] = t] ELSE h1
             \* if (this->mLink) this->mLink->mLink = mNext;
             h3 == IF h2.mLink[t] # Nil
                   THEN [h2 EXCEPT !.mLink[h2.mLink[t]] = n] ELSE h2
         IN  [h3 EXCEPT !.mLink = SwapAt(@, t, n)]

\* ---------------------------------------------------- Token::takeData (339-355)
takeData(h, t, from) ==
    LET h1 == [h EXCEPT !.mStr[t] = h.mStr[from],
                        \* delete mImpl; mImpl = fromToken->mImpl; fromToken->mImpl = nullptr
                        !.mAstParent[t] = h.mAstParent[from],
                        !.mAstOperand1[t] = h.mAstOperand1[from],
                        !.mAstOperand2[t] = h.mAstOperand2[from],
                        !.mProgressValue[t] = h.mProgressValue[from],
                        !.mFileIndex[t] = h.mFileIndex[from],
                        !.mLineNumber[t] = h.mLineNumber[from],
                        !.mAstParent[from] = Nil,
                        !.mAstOperand1[from] = Nil,
                        !.mAstOperand2[from] = Nil,
                        !.mProgressValue[from] = 0,
                        !.mFileIndex[from] = 0,
                        !.mLineNumber[from] = 0,
                        !.mLink[t] = h.mLink[from]]
    IN  IF h1.mLink[t] # Nil THEN link(h1, h1.mLink[t], t) ELSE h1

\* -------------------------------------------------- Token::deleteThis (357-372)
deleteThis(h, t) ==
    IF h.mNext[t] # Nil
    THEN LET n == h.mNext[t]
         IN  deleteNext(link(takeData(h, t, n), n, Nil), t, 1)
    ELSE IF h.mPrevious[t] # Nil
    THEN LET p == h.mPrevious[t]
         IN  deletePrevious(link(takeData(h, t, p), p, Nil), t, 1)
    ELSE str(h, t, ";")

\* ----------------------------------------------------- Token::replace (374-405)
\* while (end->next()) end = end->next();
RECURSIVE LastFrom(_, _, _)
LastFrom(h, t, fuel) ==
    IF fuel = 0 \/ h.mNext[t] = Nil THEN t ELSE LastFrom(h, h.mNext[t], fuel - 1)

\* for (tok = start; tok != stop; tok = tok->next()) tok->mImpl->mProgressValue = v
RECURSIVE SetProgress(_, _, _, _, _)
SetProgress(h, tok, stop, v, fuel) ==
    IF tok = stop \/ tok = Nil \/ fuel = 0 THEN h
    ELSE SetProgress([h EXCEPT !.mProgressValue[tok] = v], h.mNext[tok], stop, v, fuel - 1)

replace(h, replaceThis, start, end) ==
    LET \* Fix the hole in the old location of start and end
        h1 == IF h.mPrevious[start] # Nil
              THEN next(h, h.mPrevious[start], h.mNext[end]) ELSE h
        h2 == IF h1.mNext[end] # Nil
              THEN previous(h1, h1.mNext[end], h1.mPrevious[start]) ELSE h1
        \* Move start and end to their new location
        h3 == IF h2.mPrevious[replaceThis] # Nil
              THEN next(h2, h2.mPrevious[replaceThis], start) ELSE h2
        h4 == IF h3.mNext[replaceThis] # Nil
              THEN previous(h3, h3.mNext[replaceThis], end) ELSE h3
        h5 == previous(h4, start, h4.mPrevious[replaceThis])
        h6 == next(h5, end, h5.mNext[replaceThis])
        atBack == h6.back = end
        end2 == IF atBack THEN LastFrom(h6, end, MaxTokens) ELSE end
        h7 == IF atBack THEN [h6 EXCEPT !.back = end2] ELSE h6
        \* Update mProgressValue
        h8 == SetProgress(h7, start, h7.mNext[end2], h7.mProgressValue[replaceThis],
                          MaxTokens)
    IN  \* Delete old token, which is replaced
        TokenDtor(h8, replaceThis)

\* -------------------------------------------------------- Token::move (793-812)
\* srcStart->previous(), srcEnd->next() and newLocation->next() are dereferenced
\* unchecked: the call faults when one of them is null at the time it is used
moveSegv(h, srcStart, srcEnd, newLocation) ==
    \/ h.mPrevious[srcStart] = Nil
    \/ h.mNext[srcEnd] = Nil
    \/ LET h1 == next(h, h.mPrevious[srcStart], h.mNext[srcEnd])
           h3 == next(h1, srcEnd, h1.mNext[newLocation])
       IN  h3.mNext[newLocation] = Nil

move(h, srcStart, srcEnd, newLocation) ==
    LET \* Fix the gap, which tokens to be moved will leave
        h1 == next(h, h.mPrevious[srcStart], h.mNext[srcEnd])
        h2 == previous(h1, h1.mNext[srcEnd], h1.mPrevious[srcStart])
        \* Fix the tokens to be moved
        h3 == next(h2, srcEnd, h2.mNext[newLocation])
        h4 == previous(h3, srcStart, newLocation)
        \* Fix the tokens at newLocation
        h5 == previous(h4, h4.mNext[newLocation], srcEnd)
        h6 == next(h5, newLocation, srcStart)
    IN  \* Update _progressValue
        SetProgress(h6, srcStart, h6.mNext[srcEnd], h6.mProgressValue[newLocation],
                    MaxTokens)

\* ------------------------------------------------ Token::insertToken (1064-1199)
\* new is the slot `new Token` returns; it is not used when this->mStr is empty.
\* mScopeInfo is null in this model, so the scope bookkeeping (1103-1196) is skipped.
insertToken(h, t, tokenStr, prepend, new) ==
    IF h.mStr[t] = ""
    THEN str(h, t, tokenStr)
    ELSE LET h0 == str(TokenCtor(h, new), new, tokenStr)
             h1 == [h0 EXCEPT !.mLineNumber[new] = h0.mLineNumber[t],
                              !.mFileIndex[new] = h0.mFileIndex[t],
                              !.mProgressValue[new] = h0.mProgressValue[t]]
         IN  IF prepend
             THEN LET h2 == IF h1.mPrevious[t] # Nil
                            THEN next(previous(h1, new, h1.mPrevious[t]),
                                      h1.mPrevious[t], new)
                            ELSE [h1 EXCEPT !.front = new]
                  IN  next(previous(h2, t, new), new, t)
             ELSE LET h2 == IF h1.mNext[t] # Nil
                            THEN previous(next(h1, new, h1.mNext[t]),
                                          h1.mNext[t], new)
                            ELSE [h1 EXCEPT !.back = new]
                  IN  previous(next(h2, t, new), new, t)

\* ------------------------------------------------ Token::eraseTokens (1201-1209)
RECURSIVE eraseLoop(_, _, _, _)
eraseLoop(h, begin, end, fuel) ==
    IF fuel > 0 /\ h.mNext[begin] # Nil /\ h.mNext[begin] # end
    THEN eraseLoop(deleteNext(h, begin, 1), begin, end, fuel - 1)
    ELSE h

eraseTokens(h, begin, end) ==
    IF begin = Nil \/ begin = end THEN h
    ELSE eraseLoop(h, begin, end, MaxTokens)

\* ------------------------------------------- Token::createMutualLinks (1211-1218)
createMutualLinks(h, begin, end) == link(link(h, begin, end), end, begin)

\* ------------------------------------------------------------------- the AST
\* tok, tok->astParent(), ...: the tokens the cycle check of astParent visits
RECURSIVE ParentChain(_, _, _)
ParentChain(h, tok, fuel) ==
    IF tok = Nil \/ fuel = 0 THEN {}
    ELSE {tok} \cup ParentChain(h, h.mAstParent[tok], fuel - 1)

\* Token::astTop (token.h): follow mAstParent until it is null
RECURSIVE astTop(_, _, _)
astTop(h, t, fuel) ==
    IF fuel = 0 \/ h.mAstParent[t] = Nil THEN t
    ELSE astTop(h, h.mAstParent[t], fuel - 1)

\* astParent without its cycle check
astParentThrowsNever(h, t, tok) == FALSE

\* Token::astParent (1415-1432): the cycle check

astParentThrows(h, t, tok) == t \in ParentChain(h, tok, MaxTokens + 1)

\* astParent without the clearing of the old parent's operand slots
astParentKeepChildren(h, t, tok) == [h EXCEPT !.mAstParent[t] = tok]

\* Token::astParent (1415-1432) past the cycle check

astParent(h, t, tok) ==
    LET parent == h.mAstParent[t]
        \* Clear children to avoid nodes referenced twice
        h1 == IF parent # Nil /\ h.mAstOperand1[parent] = t
              THEN [h EXCEPT !.mAstOperand1[parent] = Nil] ELSE h
        h2 == IF parent # Nil /\ h1.mAstOperand2[parent] = t
              THEN [h1 EXCEPT !.mAstOperand2[parent] = Nil] ELSE h1
    IN  [h2 EXCEPT !.mAstParent[t] = tok]

\* Token::astOperand1 (1434-1444).  The result is <<heap, thrown>>: when the
\* cycle check of astParent throws, the heap is the one reached at the throw.
astOperand1(h, t, tok) ==
    LET \* if (mImpl->mAstOperand1) mImpl->mAstOperand1->astParent(nullptr);
        h1 == IF h.mAstOperand1[t] # Nil
              THEN astParent(h, h.mAstOperand1[t], Nil) ELSE h
        top == IF tok = Nil THEN Nil ELSE astTop(h1, tok, MaxTokens + 1)
    IN  IF tok = Nil THEN <<[h1 EXCEPT !.mAstOperand1[t] = Nil], "none">>
        ELSE IF astParentThrows(h1, top, t) THEN <<h1, "InternalError">>
        ELSE <<[astParent(h1, top, t) EXCEPT !.mAstOperand1[t] = top], "none">>

\* Token::astOperand2 (1446-1456)
astOperand2(h, t, tok) ==
    LET h1 == IF h.mAstOperand2[t] # Nil
              THEN astParent(h, h.mAstOperand2[t], Nil) ELSE h
        top == IF tok = Nil THEN Nil ELSE astTop(h1, tok, MaxTokens + 1)
    IN  IF tok = Nil THEN <<[h1 EXCEPT !.mAstOperand2[t] = Nil], "none">>
        ELSE IF astParentThrows(h1, top, t) THEN <<h1, "InternalError">>
        ELSE <<[astParent(h1, top, t) EXCEPT !.mAstOperand2[t] = top], "none">>

\* ------------------------------------------------------------ classification
\* the spellings given to the token looked at on its own
Texts ==
    {"", "true", "\"a\"", "L\"a\"", "'a'", "L'a'", "x", "if", "sizeof", "int",
     "bool", "size_t", "asm", "1", "10_km", "=", "+=", ",", "+", "<<", "&", "&&",
     "==", "<", ">", "<=", "<=>", "++", "{", "...", ";"}

\* isStringLiteral, isCharLiteral, isPrefixStringCharLiteral(., ., "L") of utils.h
isStringLiteral(s) == s \in {"\"a\"", "L\"a\"", "\"a b\""}
isCharLiteral(s)   == s \in {"'a'", "L'a'"}
isLongLiteral(s)   == s \in {"L\"a\"", "L'a'"}

\* std::isalpha(mStr[0]) || mStr[0] == '_' || mStr[0] == '$'
isNameStart(s) ==
    s \in {"true", "x", "if", "sizeof", "int", "bool", "size_t", "asm", "Foo",
           "operator", "template", "class", "typename", "unsigned int"}

\* simplecpp::Token::isNumberLike; MathLib::isInt || MathLib::isFloat
isNumberLike(s) == s \in {"1", "10_km"}
isIntOrFloat(s) == s = "1"
hasUnderscore(s) == s = "10_km"

\* TokenList::isKeyword: bool is a keyword of C++ and not of C
isKeyword(k, s) ==
    s \in {"if", "sizeof", "int", "true"}
    \/ (k.mIsCpp /\ s \in {"bool", "operator", "template", "class", "typename"})

\* controlFlowKeywords (92-108)
controlFlowKeywords ==
    {"goto", "do", "if", "else", "for", "while", "switch", "case", "break",
     "continue", "return"}

\* stdTypes (200-213)
stdTypes ==
    {"bool", "_Bool", "char", "double", "float", "int", "long", "short",
     "size_t", "void", "wchar_t", "signed", "unsigned"}

\* Token::Token: no text, no ids, no link, kind eNone, no flag
NewToken(cpp) ==
    [mStr |-> "", mVarId |-> 0, mLink |-> FALSE, mTokType |-> "eNone",
     fIsControlFlowKeyword |-> FALSE, fIsStandardType |-> FALSE,
     fIsLong |-> FALSE, fIsEnumType |-> FALSE,
     mFunction |-> "none", mType |-> "none", mIsCpp |-> cpp]

tokType(k, t) == [k EXCEPT !.mTokType = t]
isLong(k, b)  == [k EXCEPT !.fIsLong = b]

\* the standard-type check without the look-up in stdTypes
update_property_isStandardTypeNoSet(k) ==
    IF Len(k.mStr) < 3 \/ Len(k.mStr) > 7 THEN k
    ELSE tokType([k EXCEPT !.fIsStandardType = TRUE], "eType")

\* Token::update_property_isStandardType (220-229)
update_property_isStandardType(k) ==
    IF Len(k.mStr) < 3 \/ Len(k.mStr) > 7 THEN k
    ELSE IF k.mStr \in stdTypes
         THEN tokType([k EXCEPT !.fIsStandardType = TRUE], "eType")
         ELSE k

\* Token::update_property_info (110-198), the branch for a Name (136-152)
classifyName(k) ==
    IF k.mVarId # 0 THEN tokType(k, "eVariable")
    ELSE IF isKeyword(k, k.mStr)
    THEN LET k1 == update_property_isStandardType(tokType(k, "eKeyword"))
         IN  IF k1.mTokType # "eType"
             THEN [k1 EXCEPT !.fIsControlFlowKeyword = (k.mStr \in controlFlowKeywords)]
             ELSE k1
    ELSE IF k.mStr = "asm" THEN tokType(k, "eKeyword")
    ELSE update_property_isStandardType(tokType(k, "eName"))

\* the operator tables with the comparison test that ignores the link
classifyOpNoLinkTest(k) ==
    IF k.mStr \in {"==", "!=", "<", "<=", ">", ">="} THEN tokType(k, "eComparisonOp")
    ELSE tokType(k, "eOther")

\* the operator tables (158-192)
classifyOp(k) ==
    LET s == k.mStr
    IN  IF s \in {"=", "<<=", ">>=", "+=", "-=", "*=", "/=", "%=", "&=", "^=", "|="}
        THEN tokType(k, "eAssignmentOp")
        ELSE IF s \in {",", "[", "]", "(", ")", "?", ":"} THEN tokType(k, "eExtendedOp")
        ELSE IF s \in {"<<", ">>", "+", "-", "*", "/", "%"} THEN tokType(k, "eArithmeticalOp")
        ELSE IF s \in {"&", "|", "^", "~"} THEN tokType(k, "eBitOp")
        ELSE IF s \in {"&&", "||", "!"} THEN tokType(k, "eLogicalOp")
        ELSE IF ~k.mLink /\ s \in {"==", "!=", "<", "<=", ">", ">="}
        THEN tokType(k, "eComparisonOp")
        ELSE IF s = "<=>" THEN tokType(k, "eComparisonOp")
        ELSE IF s \in {"++", "--"} THEN tokType(k, "eIncDecOp")
        ELSE IF s \in {"{", "}"} \/ (k.mLink /\ s \in {"<", ">"}) THEN tokType(k, "eBracket")
        ELSE IF s = "..." THEN tokType(k, "eEllipsis")
        ELSE tokType(k, "eOther")

\* the flags are cleared first (114-116); fIsLong is not (the TODO of line 115)
clearedFlags(k) == [k EXCEPT !.fIsControlFlowKeyword = FALSE, !.fIsStandardType = FALSE]

\* throw InternalError(this, "Internal error. VarId set for bool literal.") (122)
updateThrows(k) == k.mStr \in {"true", "false"} /\ k.mVarId # 0 /\ k.mIsCpp

\* the token update_property_info leaves when it does not throw
classified(k0) ==
    LET k == clearedFlags(k0)
        s == k.mStr
    IN  IF s = "" THEN tokType(k, "eNone")
        ELSE IF s \in {"true", "false"}
        THEN tokType(k, IF k.mVarId # 0 THEN "eVariable" ELSE "eBoolean")
        ELSE IF isStringLiteral(s) THEN isLong(tokType(k, "eString"), isLongLiteral(s))
        ELSE IF isCharLiteral(s) THEN isLong(tokType(k, "eChar"), isLongLiteral(s))
        ELSE IF isNameStart(s) THEN classifyName(k)
        ELSE IF isNumberLike(s)
        THEN tokType(k, IF isIntOrFloat(s) /\ ~hasUnderscore(s) THEN "eNumber" ELSE "eName")
        ELSE classifyOp(k)

\* assert(!mImpl->mVarId || mTokType == eVariable) (196) would fail on k
assertFails(k) == k.mVarId # 0 /\ k.mTokType # "eVariable"

\* update_property_info: <<the token it leaves, how it ends>>.  "assert" stands
\* for a run whose final assert is false: the build decides what follows.
update_property_info(k) ==
    IF updateThrows(k) THEN <<clearedFlags(k), "InternalError">>
    ELSE LET r == classified(k)
         IN  <<r, IF assertFails(r) THEN "assert" ELSE "none">>

\* --------------------------------- setters of token.h: each re-runs the classification
nodeStr(k, s)    == update_property_info([k EXCEPT !.mStr = s])
nodeVarId(k, id) == update_property_info([k EXCEPT !.mVarId = id])
nodeLink(k, b)   == update_property_info([k EXCEPT !.mLink = b])

\* ---------------------------------------------------- Token::function (1052-1062)
function(k, f) ==
    LET k1 == [k EXCEPT !.mFunction = f]
    IN  IF f # "none" THEN tokType(k1, IF f = "lambda" THEN "eLambda" ELSE "eFunction")
        ELSE IF k1.mTokType = "eFunction" THEN tokType(k1, "eName")
        ELSE k1

\* -------------------------------------------------------- Token::type (2331-2339)
type(k, t) ==
    LET k1 == [k EXCEPT !.mType = t]
    IN  IF t # "none" THEN [tokType(k1, "eType") EXCEPT !.fIsEnumType = (t = "enum")]
        ELSE IF k1.mTokType = "eType" THEN tokType(k1, "eName")
        ELSE k1

\* ------------------------------------------------------- Token::Match (407-753)
\* A C string is the sequence of its characters; the character after the last
\* one is the terminator.
NUL == "NUL"
At(s, i) == IF i \in 1..Len(s) THEN s[i] ELSE NUL

\* tok->str().c_str() of the spellings of the tokens that are matched; a
\* spelling that is not listed is one character long
chars(s) ==
    CASE s = ""   -> <<>>
      [] s = "x"  -> <<"x">>
      [] s = "<"  -> <<"<">>
      [] s = "<=" -> <<"<", "=">>
      [] s = "]"  -> <<"]">>
      [] s = ">>"  -> <<">", ">">>
      [] s = ">>=" -> <<">", ">", "=">>
      [] s = "::"  -> <<":", ":">>
      [] s = "int" -> <<"i", "n", "t">>
      [] s = "Foo" -> <<"F", "o", "o">>
      [] s = "operator" -> <<"o", "p", "e", "r", "a", "t", "o", "r">>
      [] s = "template" -> <<"t", "e", "m", "p", "l", "a", "t", "e">>
      [] s = "class"    -> <<"c", "l", "a", "s", "s">>
      [] s = "typename" -> <<"t", "y", "p", "e", "n", "a", "m", "e">>
      [] s = "unsigned int" ->
           <<"u", "n", "s", "i", "g", "n", "e", "d", " ", "i", "n", "t">>
      [] s = "\"a b\"" -> <<"\"", "a", " ", "b", "\"">>
      [] OTHER -> <<s>>

\* the predicates of token.h the % commands ask
isName(k) ==
    k.mTokType \in {"eName", "eType", "eVariable", "eFunction", "eKeyword",
                    "eBoolean", "eLambda"}
isNumber(k)       == k.mTokType = "eNumber"
isAssignmentOp(k) == k.mTokType = "eAssignmentOp"
isComparisonOp(k) == k.mTokType = "eComparisonOp"
isBoolean(k)      == k.mTokType = "eBoolean"
isConstOp(k) ==
    k.mTokType \in {"eArithmeticalOp", "eLogicalOp", "eComparisonOp", "eBitOp"}
isOp(k) == isConstOp(k) \/ isAssignmentOp(k) \/ k.mTokType = "eIncDecOp"

\* the switch of multiComparePercent (417-532), haystack at h behind the '%':
\* <<the token satisfies the command, haystack behind the command, it throws>>
percentCommand(k, hay, h, vid) ==
    LET c == At(hay, h)
    IN  CASE c = "v" ->
               IF At(hay, h + 3) = "%" THEN <<k.mVarId # 0, h + 4, FALSE>>
               ELSE IF vid = 0 THEN <<FALSE, h, TRUE>>
               ELSE <<k.mVarId = vid, h + 6, FALSE>>
          [] c = "t" -> <<isName(k) /\ k.mVarId = 0, h + 5, FALSE>>
          [] c = "a" ->
               IF At(hay, h + 3) = "%" THEN <<TRUE, h + 4, FALSE>>
               ELSE <<isAssignmentOp(k), h + 7, FALSE>>
          [] c = "n" ->
               IF At(hay, h + 4) = "%" THEN <<isName(k), h + 5, FALSE>>
               ELSE <<isNumber(k), h + 4, FALSE>>
          [] c = "c" ->
               IF At(hay, h + 1) = "h" THEN <<k.mTokType = "eChar", h + 5, FALSE>>
               ELSE IF At(hay, h + 2) = "p" THEN <<isConstOp(k), h + 4, FALSE>>
               ELSE <<isComparisonOp(k), h + 5, FALSE>>
          [] c = "s" -> <<k.mTokType = "eString", h + 4, FALSE>>
          [] c = "b" -> <<isBoolean(k), h + 5, FALSE>>
          [] c = "o" ->
               IF At(hay, h + 2) = "%"
               THEN IF At(hay, h + 1) = "p" THEN <<isOp(k), h + 3, FALSE>>
                    ELSE <<k.mTokType = "eBitOp" /\ k.mStr = "|", h + 3, FALSE>>
               ELSE <<k.mTokType = "eLogicalOp" /\ k.mStr = "||", h + 5, FALSE>>
          [] OTHER -> <<FALSE, h, TRUE>>

\* multiComparePercent (413-533), haystack at the '%' at h:
\* <<what it returns, haystack as it leaves it, it throws>>
multiComparePercent(k, hay, h, vid) ==
    LET r == percentCommand(k, hay, h + 1, vid)
    IN  IF r[3] THEN <<0, r[2], TRUE>>
        ELSE IF r[1] THEN <<1, r[2], FALSE>>
        ELSE IF At(hay, r[2]) = "|" THEN <<65535, r[2] + 1, FALSE>>
        ELSE <<-1, r[2], FALSE>>

\* the do-while of 579-590: the first '|', ' ' or terminator behind h
RECURSIVE nextBar(_, _)
nextBar(hay, h) ==
    IF At(hay, h + 1) \in {" ", NUL, "|"} THEN h + 1 ELSE nextBar(hay, h + 1)

\* the for (;;) of multiCompareImpl (554-594) and the two returns behind it,
\* with haystack at h and needlePointer at n: <<what it returns, it throws>>
RECURSIVE compareLoop(_, _, _, _, _)
compareLoop(k, hay, h, n, vid) ==
    LET needle == chars(k.mStr)
    IN  IF n = 1 /\ At(hay, h) = "%" /\ At(hay, h + 1) \notin {"|", NUL, " "}
        THEN LET r == multiComparePercent(k, hay, h, vid)
             IN  IF r[3] THEN <<0, TRUE>>
                 ELSE IF r[1] < 2 THEN <<r[1], FALSE>>
                 ELSE compareLoop(k, hay, r[2], n, vid)
        ELSE IF At(hay, h) = "|"
        THEN IF At(needle, n) = NUL THEN <<1, FALSE>>
             ELSE compareLoop(k, hay, h + 1, 1, vid)
        ELSE IF At(needle, n) = At(hay, h)
        THEN IF At(needle, n) = NUL THEN <<1, FALSE>>
             ELSE compareLoop(k, hay, h + 1, n + 1, vid)
        ELSE IF At(hay, h) \in {" ", NUL}
        THEN IF n = 1 THEN <<0, FALSE>>
             ELSE <<IF At(needle, n) = NUL THEN 1 ELSE -1, FALSE>>
        ELSE LET b == nextBar(hay, h)
             IN  IF At(hay, b) \in {" ", NUL} THEN <<-1, FALSE>>
                 ELSE compareLoop(k, hay, b + 1, 1, vid)

\* a comparison that stops at the first alternative
multiCompareFirstOnly(k, hay, h, vid) ==
    <<IF \A i \in 0..Len(chars(k.mStr)) : At(hay, h + i) = At(chars(k.mStr), i + 1)
      THEN 1 ELSE -1, FALSE>>

\* multiCompareImpl (550-601) of the token k and the pattern from h on
multiCompareImpl(k, hay, h, vid) == compareLoop(k, hay, h, 1, vid)

\* while (*p == ' ') ++p (674-675)
RECURSIVE skipSpaces(_, _)
skipSpaces(hay, i) == IF At(hay, i) = " " THEN skipSpaces(hay, i + 1) ELSE i

\* while (*p && *p != ' ') ++p (684-685, 733-734)
RECURSIVE wordEnd(_, _)
wordEnd(hay, i) == IF At(hay, i) \in {" ", NUL} THEN i ELSE wordEnd(hay, i + 1)

\* a search that finds no space
strchrNever(hay, i) == 0

\* strchr(p, ' ') (745): the index of the first space from i on, 0 for nullptr
strchrSpace(hay, i) ==
    LET e == wordEnd(hay, i) IN IF At(hay, e) = " " THEN e ELSE 0

\* Token::chrInFirstWord (653-664): the index of c in the word at i, 0 for nullptr
chrInFirstWord(hay, i, c) ==
    LET M == {j \in i..(wordEnd(hay, i) - 1) : At(hay, j) = c}
    IN  IF M = {} THEN 0 ELSE CHOOSE j \in M : \A m \in M : j <= m

\* a comparison that stops where the word ends
firstWordStartsWith(hay, i, word, j) ==
    \A n \in 0..(Len(word) - j) : At(hay, i + n) = At(word, j + n)

\* Token::firstWordEquals (639-651)
RECURSIVE firstWordEquals(_, _, _, _)
firstWordEquals(hay, i, word, j) ==
    IF At(hay, i) # At(word, j) THEN At(hay, i) = " " /\ At(word, j) = NUL
    ELSE IF At(hay, i) = NUL THEN TRUE
    ELSE firstWordEquals(hay, i + 1, word, j + 1)

\* the scan of a character class (697-708) from temp on with count brackets
\* seen: <<chrFound, temp, count>>
RECURSIVE classScan(_, _, _, _)
classScan(hay, temp, c, count) ==
    IF At(hay, temp) \in {" ", NUL} THEN <<FALSE, temp, count>>
    ELSE IF At(hay, temp) = "]" THEN classScan(hay, temp + 1, c, count + 1)
    ELSE IF At(hay, temp) = c THEN <<TRUE, temp, count>>
    ELSE classScan(hay, temp + 1, c, count)

\* a class of which the first ']' is a member like any other character
classMatchAnyBracket(k, hay, q) ==
    LET needle == chars(k.mStr)
    IN  IF Len(needle) # 1 THEN <<FALSE, q>>
        ELSE <<\E j \in (q + 1)..(wordEnd(hay, q) - 1) : At(hay, j) = needle[1],
               wordEnd(hay, q)>>

\* the character class at q against the token k (692-720):
\* <<it matches, p as it is left>>
classMatch(k, hay, q) ==
    LET needle == chars(k.mStr)
    IN  IF Len(needle) # 1 THEN <<FALSE, q>>
        ELSE LET r == classScan(hay, q + 1, needle[1], 0)
             IN  <<r[1] \/ (r[3] > 1 /\ needle[1] = "]"), r[2]>>

\* p[0] == '!' && p[1] == '!' && p[2] != '\0' (683, 723)
isNot(hay, q) == At(hay, q) = "!" /\ At(hay, q + 1) = "!" /\ At(hay, q + 2) # NUL

\* ------------------------------------------------------------------ actions
\* a call of member function op ends with outcome res in heap h
Done(h, op, res) ==
    /\ Store(h)
    /\ last' = op
    /\ thrown' = res
    /\ unlinked' = \E b \in h.live : /\ mLink[b] \in live \ h.live
                                     /\ h.mLink[b] = Nil
    /\ UNCHANGED <<nodeVars, matchVars, streamVars>>

\* a fault or a failed assert ends the process: no call follows it
Running == thrown \notin {"segv", "abort"}

\* the spellings tokenStr are drawn from InsertStrs; max caps the stream length
InsertTokenOf(max) ==
    /\ Running
    /\ Cardinality(live) < max
    /\ \E t \in live, tokenStr \in InsertStrs, prepend \in BOOLEAN :
         \E new \in (IF mStr[t] = "" THEN {Nil} ELSE Tokens \ live) :
            Done(insertToken(Heap, t, tokenStr, prepend, new), "insertToken", "none")
    /\ UNCHANGED relinked

\* insertToken while a slot of the pool is free
InsertToken == InsertTokenOf(MaxTokens + 1)

\* insertToken while the stream has fewer than MaxLinked tokens
InsertLinked == InsertTokenOf(MaxLinked)

DeleteNext ==
    /\ Running
    /\ \E t \in live, count \in 0..MaxCount :
         Done(deleteNext(Heap, t, count), "deleteNext", "none")
    /\ UNCHANGED relinked

DeletePrevious ==
    /\ Running
    /\ \E t \in live, count \in 0..MaxCount :
         Done(deletePrevious(Heap, t, count), "deletePrevious", "none")
    /\ UNCHANGED relinked

DeleteThis ==
    /\ Running
    /\ \E t \in live : Done(deleteThis(Heap, t), "deleteThis", "none")
    /\ UNCHANGED relinked

EraseTokens ==
    /\ Running
    /\ \E begin \in live \cup {Nil}, end \in live \cup {Nil} :
         Done(eraseTokens(Heap, begin, end), "eraseTokens", "none")
    /\ UNCHANGED relinked

SwapWithNext ==
    /\ Running
    /\ \E t \in live : Done(swapWithNext(Heap, t), "swapWithNext", "none")
    /\ UNCHANGED relinked

\* the caller passes a range start..end of the stream and a target outside it
Replace ==
    /\ Running
    /\ \E replaceThis \in live, start \in live, end \in live :
         /\ Reaches(Heap, start, end)
         /\ replaceThis \notin Range(Heap, start, end)
         /\ Done(replace(Heap, replaceThis, start, end), "replace", "none")
    /\ UNCHANGED relinked

\* the caller passes a range srcStart..srcEnd and a destination outside it
Move ==
    /\ Running
    /\ \E srcStart \in live, srcEnd \in live, newLocation \in live :
         /\ Reaches(Heap, srcStart, srcEnd)
         /\ newLocation \notin Range(Heap, srcStart, srcEnd)
         /\ IF moveSegv(Heap, srcStart, srcEnd, newLocation)
            THEN Done(Heap, "move", "segv")
            ELSE Done(move(Heap, srcStart, srcEnd, newLocation), "move", "none")
    /\ UNCHANGED relinked

\* assert(begin != nullptr); assert(end != nullptr); assert(begin != end);
CreateMutualLinks ==
    /\ Running
    /\ \E begin \in live, end \in live :
         /\ begin # end
         /\ Done(createMutualLinks(Heap, begin, end), "createMutualLinks", "none")
         /\ relinked' = (relinked \/ mLink[begin] # Nil \/ mLink[end] # Nil)

AstOperand1 ==
    /\ Running
    /\ \E t \in live, tok \in live \cup {Nil} :
         LET r == astOperand1(Heap, t, tok) IN Done(r[1], "astOperand1", r[2])
    /\ UNCHANGED relinked

AstOperand2 ==
    /\ Running
    /\ \E t \in live, tok \in live \cup {Nil} :
         LET r == astOperand2(Heap, t, tok) IN Done(r[1], "astOperand2", r[2])
    /\ UNCHANGED relinked

\* ------------------------------------------------------------------ the facts
\* ValueFlow::Value (vfvalue.h) as far as addValue reads it: valueType,
\* valueKind, bound, intvalue and, for a symbolic fact, tokvalue
Fact(vt, vk, b, iv, tv) ==
    [valueType |-> vt, valueKind |-> vk, bound |-> b, intvalue |-> iv, tokvalue |-> tv]

isKnown(v)         == v.valueKind = "Known"
isPossible(v)      == v.valueKind = "Possible"
isImpossible(v)    == v.valueKind = "Impossible"
isInconclusive(v)  == v.valueKind = "Inconclusive"
isIntValue(v)      == v.valueType = "INT"
isSymbolicValue(v) == v.valueType = "SYMBOLIC"
isNonValue(v)      == v.valueType \in {"MOVED", "UNINIT", "LIFETIME"}

\* Token::exprId() of the tokens a symbolic fact refers to: two expressions
\* with an id, and one token without
exprId(t) == CASE t = 1 -> 1 [] t = 2 -> 2 [] OTHER -> 0

\* ValueFlow::Value::sameToken
sameToken(t1, t2) ==
    IF t1 = t2 THEN TRUE
    ELSE IF t1 = Nil THEN FALSE
    ELSE IF exprId(t1) = 0 \/ exprId(t2) = 0 THEN FALSE
    ELSE exprId(t1) = exprId(t2)

\* ValueFlow::Value::equalValue
equalValue(x, y) ==
    /\ x.valueType = y.valueType
    /\ CASE x.valueType = "INT" -> x.intvalue = y.intvalue
         [] x.valueType = "SYMBOLIC" ->
                sameToken(x.tokvalue, y.tokvalue) /\ x.intvalue = y.intvalue
         [] OTHER -> TRUE

\* ValueFlow::Value::compareValue(y, less{})
lessValue(x, y) == x.intvalue < y.intvalue

\* ValueFlow::Value::decreaseRange
decreaseRange(x) ==
    IF x.bound = "Lower" THEN [x EXCEPT !.intvalue = @ + 1]
    ELSE IF x.bound = "Upper" THEN [x EXCEPT !.intvalue = @ - 1]
    ELSE x

\* a sameValueType for which no two facts are of the same type
sameValueTypeNever(x, y) == FALSE

\* sameValueType (2209-2217)
sameValueType(x, y) ==
    IF x.valueType # y.valueType THEN FALSE
    ELSE IF isSymbolicValue(x)
    THEN exprId(x.tokvalue) = 0 \/ exprId(x.tokvalue) = exprId(y.tokvalue)
    ELSE TRUE

\* isAdjacent (2012-2023); no fact of the model is a float or at the limits of bigint
isAdjacent(x, y) ==
    IF x.bound # "Point" /\ x.bound = y.bound THEN TRUE
    ELSE x.intvalue = y.intvalue + 1 \/ x.intvalue = y.intvalue - 1

\* std::list::erase of the i-th entry
Erase(s, i) == [k \in 1..(Len(s) - 1) |-> IF k < i THEN s[k] ELSE s[k + 1]]

\* the entries of s whose index is not in D, in order
RECURSIVE Keep(_, _, _)
Keep(s, D, i) ==
    IF i > Len(s) THEN <<>>
    ELSE (IF i \in D THEN <<>> ELSE <<s[i]>>) \o Keep(s, D, i + 1)

\* ------------------------------------------------------ removeOverlaps (2171-2195)
\* the predicate of remove_if: y is a second copy of x
overlaps(x, y) ==
    /\ ~isNonValue(y)
    /\ x.valueType = y.valueType
    /\ x.valueKind = y.valueKind
    /\ equalValue(x, y)
    /\ x.bound = y.bound

\* for (const Value& x : values) values.remove_if(...): x is the i-th entry
RECURSIVE overlapLoop(_, _)
overlapLoop(s, i) ==
    IF i > Len(s) THEN s
    ELSE IF isNonValue(s[i]) THEN overlapLoop(s, i + 1)
    ELSE LET D == {j \in 1..Len(s) : j # i /\ overlaps(s[i], s[j])}
             before == Cardinality({j \in D : j < i})
         IN  overlapLoop(Keep(s, D, 1), i - before + 1)

\* ------------------------------------------------------- mergeAdjacent (2115-2169)
\* y takes part in the merge around the range fact x
mergeable(x, y) ==
    /\ ~isNonValue(y)
    /\ x.valueType = y.valueType
    /\ x.valueKind = y.valueKind
    /\ isSymbolicValue(x) => sameToken(x.tokvalue, y.tokvalue)

\* the indices collected in adjValues for x = s[i]
adjValues(s, i) ==
    LET x == s[i]
        others == {j \in 1..Len(s) : j # i /\ mergeable(x, s[j])}
        blocked == \E j \in others : /\ x.bound # s[j].bound
                                     /\ s[j].bound # "Point"
                                     /\ isAdjacent(x, s[j])
    IN  IF blocked THEN {}
        ELSE {j \in others :
                /\ x.bound # s[j].bound => s[j].bound = "Point"
                /\ x.bound = "Lower" => lessValue(s[j], x)
                /\ x.bound = "Upper" => lessValue(x, s[j])}

\* std::sort of adjValues by value; entries of equal value keep the list order
RECURSIVE sorted(_, _)
sorted(s, J) ==
    IF J = {} THEN <<>>
    ELSE LET m == CHOOSE j \in J : \A k \in J \ {j} :
                      \/ lessValue(s[j], s[k])
                      \/ (~lessValue(s[k], s[j]) /\ j < k)
         IN  <<m>> \o sorted(s, J \ {m})

reversed(q) == [k \in 1..Len(q) |-> q[Len(q) + 1 - k]]

\* removeAdjacentValues (2098-2113): A is the range start..last of indices;
\* <<the list, the index of the entry that follows x>>
removeAdjacentValues(s, i, A) ==
    IF ~isAdjacent(s[i], s[A[1]]) THEN <<s, i + 1>>
    ELSE LET gaps == {k \in 1..(Len(A) - 1) : ~isAdjacent(s[A[k]], s[A[k + 1]])}
             it == IF gaps = {} THEN Len(A)
                   ELSE CHOOSE k \in gaps : \A g \in gaps : k <= g
             s1 == [s EXCEPT ![A[it]].bound = s[i].bound]
             D == {A[k] : k \in 1..(it - 1)} \cup {i}
         IN  <<Keep(s1, D, 1), i - Cardinality({j \in D : j < i})>>

RECURSIVE mergeLoop(_, _)
mergeLoop(s, i) ==
    IF i > Len(s) THEN s
    ELSE IF isNonValue(s[i]) \/ s[i].bound = "Point" THEN mergeLoop(s, i + 1)
    ELSE LET J == adjValues(s, i)
         IN  IF J = {} THEN mergeLoop(s, i + 1)
             ELSE LET A == IF s[i].bound = "Lower" THEN reversed(sorted(s, J))
                           ELSE sorted(s, J)
                      r == removeAdjacentValues(s, i, A)
                  IN  mergeLoop(r[1], r[2])

mergeAdjacent(s) == mergeLoop(s, 1)

removeOverlaps(s) == mergeAdjacent(overlapLoop(s, 1))

\* ------------------------------------------------- removeContradiction (2035-2093)
\* the pair itx = s[i], ity = s[j] is passed over by the tests of 2045-2054
skipsPair(x, y) ==
    \/ isNonValue(y)
    \/ x.valueType # y.valueType
    \/ isImpossible(x) = isImpossible(y)
    \/ (isSymbolicValue(x) /\ ~sameToken(x.tokvalue, y.tokvalue))

\* removePointValue (2025-2033) on the i-th entry: a point is erased, a range
\* is narrowed by one
removePointValue(s, i) ==
    IF s[i].bound = "Point" THEN Erase(s, i)
    ELSE [s EXCEPT ![i] = decreaseRange(s[i])]

\* the loops over itx = s[i] and ity = s[j]: <<the list, the result>>
RECURSIVE contradictionLoop(_, _, _, _)
contradictionLoop(s, i, j, result) ==
    IF i > Len(s) THEN <<s, result>>
    ELSE IF isNonValue(s[i]) \/ j > Len(s) THEN contradictionLoop(s, i + 1, i + 2, result)
    ELSE IF skipsPair(s[i], s[j]) THEN contradictionLoop(s, i, j + 1, result)
    ELSE IF ~equalValue(s[i], s[j])
    THEN LET itMax == IF lessValue(s[i], s[j]) THEN j ELSE i
             itMin == IF lessValue(s[j], s[i]) THEN j ELSE i
         IN  IF isImpossible(s[itMax]) /\ s[itMax].bound = "Upper"
             THEN <<Erase(s, itMin), TRUE>>
             ELSE IF isImpossible(s[itMin]) /\ s[itMin].bound = "Lower"
             THEN <<Erase(s, itMax), TRUE>>
             ELSE contradictionLoop(s, i, j + 1, result)
    ELSE LET removex == ~isImpossible(s[i]) \/ isKnown(s[j])
             removey == ~isImpossible(s[j]) \/ isKnown(s[i])
         IN  IF s[i].bound = s[j].bound
             THEN <<Keep(s, (IF removex THEN {i} ELSE {}) \cup (IF removey THEN {j} ELSE {}), 1),
                    TRUE>>
             ELSE LET bail == \/ removex /\ s[i].bound = "Point"
                              \/ removey /\ s[j].bound = "Point"
                      \* ity is erased or narrowed first: the index of itx stays
                      s1 == IF removey THEN removePointValue(s, j) ELSE s
                      s2 == IF removex THEN removePointValue(s1, i) ELSE s1
                  IN  IF bail THEN <<s2, TRUE>>
                      ELSE contradictionLoop(s2, i, j + 1, removex \/ removey)

removeContradiction(s) == contradictionLoop(s, 1, 2, FALSE)

\* ------------------------------------------------ removeContradictions (2199-2207)
\* a loop that makes one pass
contradictionPassOnce(s, i) == removeContradiction(s)[1]

RECURSIVE contradictionPasses(_, _)
contradictionPasses(s, i) ==
    IF i >= MaxPasses THEN s
    ELSE LET r == removeContradiction(s)
         IN  IF ~r[2] THEN r[1] ELSE contradictionPasses(removeOverlaps(r[1]), i + 1)

removeContradictions(s) == contradictionPasses(removeOverlaps(s), 0)

\* --------------------------------------------------------- Token::addValue (2219-2296)
\* a loop that finds no entry equal to value
duplicateOfNone(s, value) == 0

\* the first entry the loop of 2247-2273 stops at, or 0
duplicateOf(s, value) ==
    LET M == {k \in 1..Len(s) : /\ s[k].valueType = value.valueType
                                /\ isImpossible(s[k]) = isImpossible(value)
                                /\ equalValue(s[k], value)}
    IN  IF M = {} THEN 0 ELSE CHOOSE k \in M : \A m \in M : k <= m

\* addValue without the clearing of the facts of the type of a known value
addValueNoPurge(vals, value) ==
    IF Len(vals) >= MaxValues \/ value \in {vals[k] : k \in 1..Len(vals)} THEN <<vals, FALSE>>
    ELSE <<removeContradictions(Append(vals, value)), TRUE>>

\* a list that is never full
fullNever(s) == FALSE

\* mImpl->mValues->size() >= 10U (2243)
full(s) == Len(s) >= MaxValues

\* every value is pushed to the back
pushBack(vals, value) == Append(vals, value)

\* "Add value" (2276-2284): push_front of a known integer value, else push_back
push(vals, value) ==
    IF isKnown(value) /\ isIntValue(value) THEN <<value>> \o vals
    ELSE Append(vals, value)

\* a test that finds no value to be known already
alreadyKnownNever(vals, value) == FALSE

\* a test that rejects a known value when facts of other types are left
alreadyKnownOfKnown(vals, value) == isKnown(value) /\ vals # <<>>

\* the test of 2229-2233: another value of the type of value is known
alreadyKnown(vals, value) ==
    /\ ~isKnown(value)
    /\ \E k \in 1..Len(vals) : /\ isKnown(vals[k])
                                /\ sameValueType(vals[k], value)
                                /\ ~equalValue(vals[k], value)

\* <<the list the call leaves, the value it returns>>
addValue(vals, value) ==
    LET \* Clear all other values of the same type since value is known
        v1 == IF isKnown(value)
              THEN SelectSeq(vals, LAMBDA x : ~sameValueType(x, value))
              ELSE vals
        \* Don't add a value if its already known
        known == alreadyKnown(v1, value)
        it == duplicateOf(v1, value)
    IN  IF known THEN <<v1, FALSE>>
        \* Don't handle more than 10 values for performance reasons
        ELSE IF full(v1) THEN <<v1, FALSE>>
        ELSE IF it # 0
        THEN \* same value, but old value is inconclusive so replace it
             IF isInconclusive(v1[it]) /\ ~isInconclusive(value) /\ ~isImpossible(value)
             THEN <<removeContradictions([v1 EXCEPT ![it] = value]), TRUE>>
             ELSE <<v1, FALSE>>
        ELSE <<removeContradictions(push(v1, value)), TRUE>>

\* ------------------------------------------------ the lookups of a known fact
\* Token::hasKnownIntValue (2517-2525): it looks at the front only
hasKnownIntValue(vals) ==
    IF vals = <<>> THEN FALSE
    ELSE isIntValue(vals[1]) /\ isKnown(vals[1])

\* Token::getKnownValue (2553-2569): the index of the entry it returns, 0 for
\* nullptr
getKnownValue(vals, t) ==
    IF vals = <<>> THEN 0
    ELSE IF t = "INT"
    THEN IF ~isKnown(vals[1]) \/ ~isIntValue(vals[1]) THEN 0 ELSE 1
    ELSE LET M == {k \in 1..Len(vals) : isKnown(vals[k]) /\ vals[k].valueType = t}
         IN  IF M = {} THEN 0 ELSE CHOOSE k \in M : \A m \in M : k <= m

\* ------------------------------------------- calls on the token looked at on its own
heapVars == <<live, mNext, mPrevious, mLink, mStr, mAstParent, mAstOperand1,
              mAstOperand2, mProgressValue, mFileIndex, mLineNumber, front, back>>

\* a call of op on the token ends with outcome res, returns ret, leaves k and vals
DoneNode(k, vals, op, res, ret) ==
    /\ token' = k /\ mValues' = vals /\ returned' = ret
    /\ last' = op /\ thrown' = res
    /\ superseded' = "none" /\ decided' = "none"
    /\ UNCHANGED <<heapVars, relinked, unlinked, matchVars, streamVars>>

\* a classification run r = <<token, outcome>> made by op.  A false assert
\* aborts where asserts are compiled in and is skipped under NDEBUG.
Classified(r, op) ==
    IF r[2] = "assert"
    THEN \E res \in {"abort", "none"} : DoneNode(r[1], mValues, op, res, "void")
    ELSE DoneNode(r[1], mValues, op, r[2], "void")

NodeStr ==
    /\ Running
    /\ \E s \in Texts : Classified(nodeStr(token, s), "str")

NodeVarId ==
    /\ Running
    /\ \E id \in 0..MaxVarId : Classified(nodeVarId(token, id), "varId")

NodeLink ==
    /\ Running
    /\ \E b \in BOOLEAN : Classified(nodeLink(token, b), "link")

\* the private update_property_info run again, as concatStr does (248)
UpdatePropertyInfo ==
    /\ Running
    /\ Classified(update_property_info(token), "update_property_info")

Function ==
    /\ Running
    /\ \E f \in {"none", "function", "lambda"} :
         DoneNode(function(token, f), mValues, "function", "none", "void")

Type ==
    /\ Running
    /\ \E t \in {"none", "class", "enum"} :
         DoneNode(type(token, t), mValues, "type", "none", "void")

\* ------------------------------------------------------- the calls of addValue
Kinds  == {"Known", "Possible", "Impossible", "Inconclusive"}
Bounds == {"Point", "Lower", "Upper"}

\* the values of the integer facts: equal, next to each other, and apart
IntValues == {0, 1, 2}

\* the facts given to addValue: integer facts of every confidence and bound, and
\* symbolic point facts about three tokens
Facts ==
    {Fact("INT", vk, b, iv, Nil) : vk \in Kinds, b \in Bounds, iv \in IntValues}
    \cup {Fact("SYMBOLIC", vk, "Point", iv, tv) :
             vk \in {"Known", "Possible"}, iv \in 0..1, tv \in 1..3}

\* possible integer facts that neither overlap nor touch, and a known symbolic fact
CapFacts ==
    {Fact("INT", "Possible", "Point", 2 * k, Nil) : k \in 0..MaxValues}
    \cup {Fact("SYMBOLIC", "Known", "Point", 0, 1)}

\* what the known fact value clears from vals
Superseded(vals, value) ==
    IF ~isKnown(value) THEN "none"
    ELSE IF \E k \in 1..Len(vals) : /\ sameValueType(vals[k], value)
                                    /\ isKnown(vals[k])
                                    /\ ~equalValue(vals[k], value)
    THEN "known"
    ELSE IF \E k \in 1..Len(vals) : sameValueType(vals[k], value) THEN "uncertain"
    ELSE "none"

\* the statement that ends addValue(value) on vals: the return of 2233, of
\* 2244 or of 2271, the assignment of 2265, the push of 2281 or that of 2283
Decided(vals, value) ==
    LET v1 == IF isKnown(value)
              THEN SelectSeq(vals, LAMBDA x : ~sameValueType(x, value))
              ELSE vals
        it == duplicateOf(v1, value)
    IN  IF alreadyKnown(v1, value) THEN "known"
        ELSE IF full(v1) THEN "full"
        ELSE IF it = 0
        THEN IF isKnown(value) /\ isIntValue(value) THEN "push_front" ELSE "push_back"
        ELSE IF isInconclusive(v1[it]) /\ ~isInconclusive(value) /\ ~isImpossible(value)
        THEN "replaced"
        ELSE "duplicate"

\* addValue(value) on the token
AddValueOf(value) ==
    LET r == addValue(mValues, value)
    IN  /\ mValues' = r[1]
        /\ returned' = IF r[2] THEN "true" ELSE "false"
        /\ superseded' = Superseded(mValues, value)
        /\ decided' = Decided(mValues, value)
        /\ last' = "addValue" /\ thrown' = "none"
        /\ UNCHANGED <<heapVars, relinked, unlinked, token, matchVars, streamVars>>

AddValue ==
    /\ Running
    /\ Len(mValues) < MaxFacts
    /\ \E value \in Facts : AddValueOf(value)

\* a pass that gives its integer facts in the order of their values, each one
\* once or twice, and the symbolic fact at any time
AddValueInOrder ==
    /\ Running
    /\ \E value \in CapFacts :
         /\ isIntValue(value) =>
               LET n == Cardinality({k \in 1..Len(mValues) : isIntValue(mValues[k])})
               IN  value.intvalue \in {2 * (n - 1), 2 * n}
         /\ AddValueOf(value)

\* impossible integer facts below, among and above the facts of CapFacts
BoundFacts ==
    {Fact("INT", "Impossible", b, iv, Nil) : b \in Bounds, iv \in {-1, 0, 2 * MaxValues + 1}}

\* an impossible fact is given at any time of the pass
AddBound ==
    /\ Running
    /\ \E value \in BoundFacts : AddValueOf(value)

\* the pass goes on until an impossible fact is in the list
NoBound == \A k \in 1..Len(mValues) : ~isImpossible(mValues[k])

\* ------------------------------------------------- the steps of Token::Match
\* One step is one round of the while (true) of 672-750; the call is entered
\* with p = pattern and tok the first token of run.
MatchDone(p2, tok2, res) ==
    /\ pp' = p2 /\ cur' = tok2 /\ matched' = res
    /\ last' = "Match"
    /\ thrown' = IF res = "InternalError" THEN "InternalError" ELSE "none"
    /\ UNCHANGED <<heapVars, relinked, unlinked, nodeVars, pattern, varid, run,
                   streamVars>>

\* if (!(p = strchr(p, ' '))) break; tok = tok->next(); (744-748)
MatchAdvance(p2) ==
    LET sp == strchrSpace(pattern, p2)
    IN  IF sp = 0 THEN MatchDone(p2, cur, "true")
        ELSE MatchDone(sp, cur + 1, "running")

\* if (!(*pattern)) return true; (668-669)
MatchEmptyPattern ==
    /\ matched = "running" /\ pp = 1 /\ pattern = <<>>
    /\ MatchDone(pp, cur, "true")

\* p behind the spaces (674-675)
AtWord == skipSpaces(pattern, pp)

\* a round is entered with characters left in the pattern
MatchRound == matched = "running" /\ pattern # <<>>

\* "No token => Success!" (677-679)
MatchExhausted ==
    /\ MatchRound /\ At(pattern, AtWord) = NUL
    /\ MatchDone(AtWord, cur, "true")

\* if (!tok) (681-690)
MatchNoToken ==
    /\ MatchRound /\ At(pattern, AtWord) # NUL
    /\ cur > Len(run)
    /\ IF isNot(pattern, AtWord)
       THEN MatchDone(wordEnd(pattern, AtWord), cur, "running")
       ELSE MatchDone(AtWord, cur, "false")

\* a round with a token
MatchToken == MatchRound /\ At(pattern, AtWord) # NUL /\ cur <= Len(run)

\* "[.. => search for a one-character token.." (692-720)
MatchCharClass ==
    /\ MatchToken
    /\ At(pattern, AtWord) = "[" /\ chrInFirstWord(pattern, AtWord, "]") # 0
    /\ LET r == classMatch(run[cur], pattern, AtWord)
       IN  IF r[1] THEN MatchAdvance(r[2]) ELSE MatchDone(AtWord, cur, "false")

\* "Parse "not" options" (722-727)
MatchNot ==
    /\ MatchToken
    /\ ~(At(pattern, AtWord) = "[" /\ chrInFirstWord(pattern, AtWord, "]") # 0)
    /\ isNot(pattern, AtWord)
    /\ IF firstWordEquals(pattern, AtWord + 2, chars(run[cur].mStr), 1)
       THEN MatchDone(AtWord + 2, cur, "false")
       ELSE MatchAdvance(AtWord + 2)

\* "Parse multi options" (729-742)
MatchMulti ==
    /\ MatchToken
    /\ ~(At(pattern, AtWord) = "[" /\ chrInFirstWord(pattern, AtWord, "]") # 0)
    /\ ~isNot(pattern, AtWord)
    /\ LET res == multiCompareImpl(run[cur], pattern, AtWord, varid)
       IN  IF res[2] THEN MatchDone(AtWord, cur, "InternalError")
           ELSE IF res[1] = 0
           THEN MatchDone(wordEnd(pattern, AtWord), cur, "running")
           ELSE IF res[1] = -1 THEN MatchDone(AtWord, cur, "false")
           ELSE MatchAdvance(AtWord)

\* ------------------------------------------------- the patterns and the tokens
\* the token with spelling s and variable id id, as str() and varId() leave it
tokenOf(s, id) == nodeVarId(nodeStr(NewToken(TRUE), s)[1], id)[1]

MatchVarIds == {0, 1}

\* a name without and with a variable id, an operator, an operator of which
\* the first is a proper prefix, and the closing bracket
MatchTokens ==
    {tokenOf("x", id) : id \in MatchVarIds}
    \cup {tokenOf("<", 0), tokenOf("<=", 0), tokenOf("]", 0)}

\* the runs of up to n tokens
RECURSIVE RunsOf(_)
RunsOf(n) ==
    IF n = 0 THEN {<<>>}
    ELSE LET R == RunsOf(n - 1)
         IN  R \cup {Append(r, t) : r \in {q \in R : Len(q) = n - 1}, t \in MatchTokens}

Alt(a, b) == a \o <<"|">> \o b
Not(a) == <<"!", "!">> \o a
Class(set) == <<"[">> \o set \o <<"]">>
Then(a, b) == a \o <<" ">> \o b

varidCmd == <<"%", "v", "a", "r", "i", "d", "%">>
varCmd   == <<"%", "v", "a", "r", "%">>
anyCmd   == <<"%", "a", "n", "y", "%">>
nameCmd  == <<"%", "n", "a", "m", "e", "%">>
compCmd  == <<"%", "c", "o", "m", "p", "%">>

Words == {chars("x"), chars("<"), chars("<=")}

\* literal text and literal alternatives
Literals ==
    Words \cup {chars("]")} \cup {Alt(a, b) : a \in Words, b \in Words}
    \cup {Alt(Alt(chars("<="), chars("x")), chars("<"))}

\* alternatives with an empty option at the start, in the middle and at the end
Optionals ==
    {<<"|">> \o a : a \in {chars("x"), chars("<=")}}
    \cup {a \o <<"|">> : a \in {chars("x"), chars("<=")}}
    \cup {a \o <<"|", "|">> \o chars("<") : a \in {chars("x"), chars("<=")}}

Negations == {Not(a) : a \in Words} \cup {<<"!", "!">>}

\* classes with and without a ']' inside, the empty class, and a '[' that no
\* ']' closes
Classes ==
    {Class(set) : set \in {<<"x", "<">>, <<"x">>, <<"]", "x">>, <<"x", "]">>, <<>>,
                           <<"]">>, <<"<", "=">>}}
    \cup {<<"[", "x">>}

Commands ==
    {varidCmd, varCmd, anyCmd, nameCmd, compCmd,
     Alt(chars("x"), varidCmd), Alt(varidCmd, chars("x")), varCmd \o <<"|">>}

Specifiers == Literals \cup Optionals \cup Negations \cup Classes \cup Commands

\* the specifiers that follow another one
Seconds == {chars("x"), chars("<="), Not(chars("x")), Class(<<"x", "<">>), varidCmd}

\* the empty pattern, one specifier, two specifiers, and spaces that separate
\* nothing
Patterns ==
    {<<>>} \cup Specifiers \cup {Then(a, b) : a \in Specifiers, b \in Seconds}
    \cup {chars("x") \o <<" ">>, chars("x") \o <<" ", " ">> \o chars("x"), <<" ">>}

\* ------------------------------------------------ functions on a token list
\* A token list read as a whole is the sequence of its tokens from the front;
\* a token is named by its place, nullptr by 0, and mLink holds the place of
\* the partner.

\* the token at place i as its setters classified it
tokenAt(toks, i) ==
    nodeLink(tokenOf(toks[i].mStr, toks[i].mVarId), toks[i].mLink # 0)[1]
classifiedList(toks) == [i \in 1..Len(toks) |-> tokenAt(toks, i)]

\* tokAt and strAt of token.h from place i
tokAt(toks, i, n) == IF i + n \in 1..Len(toks) THEN i + n ELSE 0
strAt(toks, i, n) == IF i + n \in 1..Len(toks) THEN toks[i + n].mStr ELSE ""

\* Token::Match (666-753) as one call on the classified tokens ks from place
\* c on: "true", "false" or "InternalError"
RECURSIVE matchLoop(_, _, _, _, _)
matchLoop(ks, c, pat, p, vid) ==
    LET q == skipSpaces(pat, p)
        advance(p2) ==
            LET sp == strchrSpace(pat, p2)
            IN  IF sp = 0 THEN "true" ELSE matchLoop(ks, c + 1, pat, sp, vid)
    IN  IF At(pat, q) = NUL THEN "true"
        ELSE IF c \notin 1..Len(ks)
        THEN IF isNot(pat, q) THEN matchLoop(ks, c, pat, wordEnd(pat, q), vid)
             ELSE "false"
        ELSE IF At(pat, q) = "[" /\ chrInFirstWord(pat, q, "]") # 0
        THEN LET r == classMatch(ks[c], pat, q)
             IN  IF r[1] THEN advance(r[2]) ELSE "false"
        ELSE IF isNot(pat, q)
        THEN IF firstWordEquals(pat, q + 2, chars(ks[c].mStr), 1) THEN "false"
             ELSE advance(q + 2)
        ELSE LET res == multiCompareImpl(ks[c], pat, q, vid)
             IN  IF res[2] THEN "InternalError"
                 ELSE IF res[1] = 0 THEN matchLoop(ks, c, pat, wordEnd(pat, q), vid)
                 ELSE IF res[1] = -1 THEN "false"
                 ELSE advance(q)

Match(ks, c, pat) == pat = <<>> \/ matchLoop(ks, c, pat, 1, 0) = "true"

\* the while (*current) of Token::simpleMatch (625-635)
RECURSIVE simpleLoop(_, _, _, _, _)
simpleLoop(ks, c, pat, current, nxt) ==
    IF At(pat, current) = NUL THEN TRUE
    ELSE IF \/ c \notin 1..Len(ks)
            \/ nxt - current # Len(chars(ks[c].mStr))
            \/ \E i \in 0..(nxt - current - 1) :
                 At(pat, current + i) # At(chars(ks[c].mStr), i + 1)
    THEN FALSE
    ELSE IF At(pat, nxt) # NUL
    THEN simpleLoop(ks, c + 1, pat, nxt + 1, wordEnd(pat, nxt + 1))
    ELSE simpleLoop(ks, c + 1, pat, nxt, nxt)

\* a simpleMatch that looks at the first word only
simpleMatchFirstWord(ks, c, pat) ==
    /\ c \in 1..Len(ks)
    /\ Len(chars(ks[c].mStr)) = wordEnd(pat, 1) - 1
    /\ \A i \in 1..(wordEnd(pat, 1) - 1) : pat[i] = chars(ks[c].mStr)[i]

\* Token::simpleMatch (609-636); memchr(pattern, ' ', pattern_len) or end is
\* the end of the first word
simpleMatch(ks, c, pat) ==
    c \in 1..Len(ks) /\ simpleLoop(ks, c, pat, 1, wordEnd(pat, 1))

\* a test that takes no token for the end of an operator spelling
isOperatorNever(toks, i) == FALSE

\* isOperator (868-874)
isOperator(toks, i) ==
    strAt(toks, IF toks[i].mLink # 0 THEN toks[i].mLink ELSE i, -1) = "operator"

\* the patterns findClosingBracket and findOpeningBracket match
opCmd == <<"%", "o", "p", "%">>
operatorOp == Then(Then(chars("operator"), opCmd), chars("<"))
operatorBrackets ==
    Then(Then(Then(chars("operator"), Class(<<"(", "[">>)), Class(<<")", "]">>)),
         chars("<"))
templateOpen == Then(chars("template"), chars("<"))
openers == Alt(Alt(chars("{"), chars("[")), chars("("))
closers == Alt(Alt(Alt(chars("}"), chars("]")), chars(")")), chars(";"))
openersBackward == Alt(Alt(Alt(chars("{"), chars("{")), chars("(")), chars(";"))
closersBackward == Alt(Alt(chars("}"), chars("]")), chars(")"))

\* the test of 884-887 that lets every token before the '<' pass
qualifiesAlways(toks, ks, t) == TRUE

\* the test of 884-887 on the token before t
qualifies(toks, ks, t) ==
    \/ isName(ks[t - 1])
    \/ simpleMatch(ks, t - 1, chars("]"))
    \/ Match(ks, tokAt(toks, t - 1, -1), operatorOp)
    \/ Match(ks, tokAt(toks, t - 1, -2), operatorBrackets)

\* the loop of 893-901 from prev backwards
RECURSIVE declLoop(_, _, _)
declLoop(ks, prev, isDecl) ==
    IF prev = 0 THEN isDecl
    ELSE LET d1 == IF ks[prev].mStr = "=" THEN FALSE ELSE isDecl
             d2 == IF simpleMatch(ks, prev, templateOpen) THEN TRUE ELSE d1
         IN  IF Match(ks, prev, Class(<<";", "{", "}">>)) THEN d2
             ELSE declLoop(ks, prev - 1, d2)

\* The loop of 903-930 with closing at place c.  depth is an unsigned int: d
\* stands for d modulo 2^32, and a list has fewer than 2^31 tokens, so the
\* value is 0, 1 or at most 2 exactly when d is.
RECURSIVE closingLoop(_, _, _, _, _, _, _)
closingLoop(toks, ks, c, d, isDecl, templateParameter, templateParameters) ==
    LET go(c2, d2, ps) ==
            closingLoop(toks, ks, tokAt(toks, c2, 1), d2, isDecl, templateParameter, ps)
        s == toks[c].mStr
    IN  IF c = 0 THEN 0
        ELSE IF Match(ks, c, openers)
        THEN IF toks[c].mLink = 0 THEN 0
             ELSE go(toks[c].mLink, d, templateParameters)
        ELSE IF Match(ks, c, closers) THEN 0
        ELSE IF /\ s = "<" /\ c > 1
                /\ \/ isName(ks[c - 1])
                   \/ simpleMatch(ks, c - 1, chars("]"))
                   \/ isOperator(toks, c - 1)
                /\ templateParameter => strAt(toks, c, -1) \notin templateParameters
        THEN go(c, d + 1, templateParameters)
        ELSE IF s = ">"
        THEN IF d - 1 = 0 THEN c ELSE go(c, d - 1, templateParameters)
        ELSE IF s \in {">>", ">>="}
        THEN IF ~isDecl /\ d = 1 THEN go(c, d, templateParameters)
             ELSE IF d \in 0..2 THEN c
             ELSE go(c, d - 2, templateParameters)
        ELSE IF /\ templateParameter /\ d = 1
                /\ Match(ks, c, Class(<<",", "=">>))
                /\ isName(ks[c - 1])
                /\ ~Match(ks, c - 1, Alt(Alt(chars("class"), chars("typename")), chars(".")))
                /\ ~Match(ks, tokAt(toks, c, -2), Alt(chars("="), chars("::")))
        THEN go(c, d, templateParameters \cup {strAt(toks, c, -1)})
        ELSE go(c, d, templateParameters)

\* Token::findClosingBracket (876-933) of the token at place t
findClosingBracket(toks, t) ==
    LET ks == classifiedList(toks)
    IN  IF toks[t].mStr # "<" THEN 0
        ELSE IF t = 1 THEN 0
        ELSE IF ~qualifies(toks, ks, t) THEN 0
        ELSE closingLoop(toks, ks, t, 0, declLoop(ks, t - 1, TRUE),
                         strAt(toks, t, -1) = "template", {})

\* the loop of 948-962 with opening at place c
RECURSIVE openingLoop(_, _, _, _)
openingLoop(toks, ks, c, d) ==
    LET go(c2, d2) == openingLoop(toks, ks, tokAt(toks, c2, -1), d2)
        s == toks[c].mStr
    IN  IF c = 0 THEN 0
        ELSE IF Match(ks, c, closersBackward)
        THEN IF toks[c].mLink = 0 THEN 0 ELSE go(toks[c].mLink, d)
        ELSE IF Match(ks, c, openersBackward) THEN 0
        ELSE IF s = ">" THEN go(c, d + 1)
        ELSE IF s = "<" THEN IF d - 1 = 0 THEN c ELSE go(c, d - 1)
        ELSE go(c, d)

\* Token::findOpeningBracket (941-965) of the token at place t
findOpeningBracket(toks, t) ==
    IF toks[t].mStr # ">" THEN 0
    ELSE openingLoop(toks, classifiedList(toks), t, 0)

\* std::to_string of a variable id
to_string(n) ==
    <<CASE n = 0 -> "0" [] n = 1 -> "1" [] n = 2 -> "2" [] n = 3 -> "3" [] n = 4 -> "4"
        [] n = 5 -> "5" [] n = 6 -> "6" [] n = 7 -> "7" [] n = 8 -> "8" [] n = 9 -> "9">>

\* the loop of 1281-1286: a '\0' inside the spelling is written as \0
RECURSIVE escaped(_)
escaped(cs) ==
    IF cs = <<>> THEN <<>>
    ELSE (IF Head(cs) = NUL THEN <<"\\", "0">> ELSE <<Head(cs)>>) \o escaped(Tail(cs))

\* a rendering that writes every spelling as it is
stringifyAsSpelled(k, opts) == chars(k.mStr)

\* Token::stringify (1258-1304) with the options attributes, macro and exprid
\* off and idtype off
stringify(k, opts) ==
    LET cs == chars(k.mStr)
        ret == IF isName(k) /\ \E i \in 1..Len(cs) : cs[i] = " "
               THEN SelectSeq(cs, LAMBDA c : c # " ")
               ELSE IF At(cs, 1) # "\"" \/ \A i \in 1..Len(cs) : cs[i] # NUL THEN cs
               ELSE escaped(cs)
    IN  IF opts.varid /\ k.mVarId # 0 THEN ret \o <<"@">> \o to_string(k.mVarId)
        ELSE ret

\* the loop of 1325-1387 with tok at place c, with the options linebreaks,
\* linenumbers and files off: the book-keeping of lines and files writes nothing
RECURSIVE stringifyLoop(_, _, _)
stringifyLoop(toks, c, opts) ==
    IF c = opts.end \/ c = 0 THEN <<>>
    ELSE stringify(tokenAt(toks, c), opts)
         \o (IF tokAt(toks, c, 1) # opts.end THEN <<" ">> ELSE <<>>)
         \o stringifyLoop(toks, tokAt(toks, c, 1), opts)

\* Token::stringifyList (1315-1392) of the token at place t up to opts.end
stringifyList(toks, t, opts) ==
    IF t = opts.end THEN <<>> ELSE stringifyLoop(toks, t, opts)

\* --------------------------------------------------- the token lists read
\* the brackets as the tokenizer links them: an opening bracket and the
\* closing bracket of its kind that balances it; any other bracket has no link
openBrackets == {"(", "[", "{"}
closeBrackets == {")", "]", "}"}
closes(a, b) == <<a, b>> \in {<<"(", ")">>, <<"[", "]">>, <<"{", "}">>}
balance(strs, i, j) ==
    Cardinality({n \in i..j : strs[n] \in openBrackets})
    - Cardinality({n \in i..j : strs[n] \in closeBrackets})
balanced(strs, i, j) ==
    /\ i < j /\ closes(strs[i], strs[j]) /\ balance(strs, i, j) = 0
    /\ \A n \in i..(j - 1) : balance(strs, i, n) > 0
partner(strs, i) ==
    LET P == {j \in 1..Len(strs) : balanced(strs, i, j) \/ balanced(strs, j, i)}
    IN  IF P = {} THEN 0 ELSE CHOOSE j \in P : TRUE
listOf(strs) ==
    [i \in 1..Len(strs) |-> [mStr |-> strs[i], mLink |-> partner(strs, i), mVarId |-> 0]]

\* what stands before the first '<'
Befores ==
    {<<>>, <<"x">>, <<"1">>, <<"]">>, <<")">>, <<"template">>,
     <<"operator", "+">>, <<"x", "+">>, <<"operator", "(", ")">>,
     <<"x", "=", "x">>}

\* what stands behind it
BodyTexts == {"x", "1", "<", ">", ">>", ";", "(", ")"}
RECURSIVE Bodies(_)
Bodies(n) ==
    IF n = 0 THEN {<<>>}
    ELSE LET B == Bodies(n - 1)
         IN  B \cup {Append(b, t) : b \in {q \in B : Len(q) = n - 1}, t \in BodyTexts}

\* lists with a template argument, a comparison, a shift, nested arguments,
\* brackets inside the argument, and a named template parameter
Examples ==
    {<<"Foo", "<", "int", ">", "x", ";">>,
     <<"x", "<", "x", ";", ">", "x", ";">>,
     <<"Foo", "<", "1", "<", "1", ">">>,
     <<"x", "=", "x", "<", "x", ">>", "x", ">", ";">>,
     <<"x", "<", "x", "<", "x", ">>", ";">>,
     <<"x", "<", "x", "<", "x", "<", "x", ">>", ">", ";">>,
     <<"x", "<", "x", "<", "x", ">>=", "x", ";">>,
     <<"x", "<", "(", "x", ">", "x", ")", ">", ";">>,
     <<"x", "<", "x", "[", ";", "]", ">">>,
     <<"x", "<", "{", "}", ">">>,
     <<"x", "<", "{", ">">>,
     <<"x", "<", "x", "]", ">">>,
     <<"x", "<", "x", "}", ">">>,
     <<"operator", "[", "]", "<", "x", ">">>,
     <<"operator", "(", ")", "<", "x", ">", "(", ")">>,
     <<"template", "<", "class", "x", ",", "x", "<", "1", ">", ">">>,
     <<"template", "<", "class", "x", "=", "x", "<", "1", ">", ">">>}

Streams ==
    {listOf(h \o <<"<">> \o b) : h \in Befores, b \in Bodies(MaxBody)}
    \cup {listOf(e) : e \in Examples}

\* the tokens of the lists that are written: a name without and with a
\* variable id, a name and a string spelled with a space, a ';', and a token
\* that was given no spelling
TextTokens ==
    {[mStr |-> "x", mLink |-> 0, mVarId |-> id] : id \in 0..1}
    \cup {[mStr |-> t, mLink |-> 0, mVarId |-> 0] :
            t \in {"unsigned int", "\"a b\"", ";", ""}}

RECURSIVE TextLists(_)
TextLists(n) ==
    IF n = 0 THEN {<<>>}
    ELSE LET R == TextLists(n - 1)
         IN  R \cup {Append(r, t) : r \in {q \in R : Len(q) = n - 1}, t \in TextTokens}

\* ------------------------------------------------- calls that read a list
\* a call of op on the token at place t returns res
StreamDone(op, t, res) ==
    /\ self' = t /\ found' = res
    /\ last' = op /\ thrown' = "none"
    /\ UNCHANGED <<heapVars, relinked, unlinked, nodeVars, matchVars, stream,
                   options, text>>

\* The two functions change nothing, so a list is read once, at any of its
\* tokens; findOpeningBracket is also called on what findClosingBracket found.
FindClosingBracket ==
    /\ last = "init"
    /\ \E t \in 1..Len(stream) :
         StreamDone("findClosingBracket", t, findClosingBracket(stream, t))

FindOpeningBracket ==
    /\ last = "init"
    /\ \E t \in 1..Len(stream) :
         StreamDone("findOpeningBracket", t, findOpeningBracket(stream, t))

FindOpeningOfClosing ==
    /\ last = "findClosingBracket" /\ found # 0
    /\ StreamDone("findOpeningBracket", found, findOpeningBracket(stream, found))

\* stringifyList(options, nullptr, end) on the token at place t; end is
\* nullptr, t itself or a token behind t
StringifyList ==
    /\ last = "init"
    /\ \E t \in 1..Len(stream), v \in BOOLEAN, e \in 0..Len(stream) :
         /\ e = 0 \/ e >= t
         /\ options' = [varid |-> v, end |-> e]
         /\ text' = stringifyList(stream, t, options')
         /\ self' = t
         /\ last' = "stringifyList" /\ thrown' = "none"
         /\ UNCHANGED <<heapVars, relinked, unlinked, nodeVars, matchVars, stream, found>>

\* ----------------------------------------------------------- initial states
EmptyHeap ==
    [live |-> {}, mNext |-> [t \in Tokens |-> Nil], mPrevious |-> [t \in Tokens |-> Nil],
     mLink |-> [t \in Tokens |-> Nil], mStr |-> [t \in Tokens |-> ""],
     mAstParent |-> [t \in Tokens |-> Nil], mAstOperand1 |-> [t \in Tokens |-> Nil],
     mAstOperand2 |-> [t \in Tokens |-> Nil], mProgressValue |-> [t \in Tokens |-> 0],
     mFileIndex |-> [t \in Tokens |-> 0], mLineNumber |-> [t \in Tokens |-> 0],
     front |-> Nil, back |-> Nil]

\* the list after its first token was added: front = back = that token
FirstToken(s) ==
    [str(TokenCtor(EmptyHeap, 1), 1, s) EXCEPT !.front = 1, !.back = 1]

\* the stream the lexer hands over: n tokens ";" appended one after the other
RECURSIVE LexedStream(_)
LexedStream(n) ==
    IF n = 1 THEN FirstToken(";")
    ELSE insertToken(LexedStream(n - 1), n - 1, ";", FALSE, n)

InitHeap(h) ==
    /\ live = h.live /\ mNext = h.mNext /\ mPrevious = h.mPrevious
    /\ mLink = h.mLink /\ mStr = h.mStr /\ mAstParent = h.mAstParent
    /\ mAstOperand1 = h.mAstOperand1 /\ mAstOperand2 = h.mAstOperand2
    /\ mProgressValue = h.mProgressValue /\ mFileIndex = h.mFileIndex
    /\ mLineNumber = h.mLineNumber /\ front = h.front /\ back = h.back
    /\ last = "init" /\ thrown = "none" /\ relinked = FALSE /\ unlinked = FALSE

\* Token::Match is not called
NoMatch ==
    /\ pattern = <<>> /\ varid = 0 /\ run = <<>> /\ pp = 1 /\ cur = 1
    /\ matched = "idle"

\* no token list is read
NoOptions == [varid |-> FALSE, end |-> 0]
NoStream == stream = <<>> /\ self = 0 /\ found = 0 /\ options = NoOptions /\ text = <<>>

\* the token looked at on its own, as its constructor leaves it in a C++ list
InitWith(h) ==
    /\ InitHeap(h) /\ NoMatch /\ NoStream
    /\ token = NewToken(TRUE) /\ mValues = <<>> /\ returned = "void"
    /\ superseded = "none" /\ decided = "none"

Init == \E s \in Strs : InitWith(FirstToken(s))

InitLexed == InitWith(LexedStream(MaxTokens))

InitLexedShort == InitWith(LexedStream(MaxAstTokens))

\* every live token that carries a link has a live partner, other than itself,
\* that links back
LinksSound ==
    \A a \in live :
        mLink[a] # Nil =>
            /\ mLink[a] \in live
            /\ mLink[a] # a
            /\ mLink[mLink[a]] = a

\* --------------------------------------------------------- AST invariants
\* operand1(P) = C or operand2(P) = C iff parent(C) = P, never both slots
AstConsistent ==
    /\ \A p \in live, c \in live :
         (mAstOperand1[p] = c \/ mAstOperand2[p] = c) <=> mAstParent[c] = p
    /\ \A p \in live : mAstOperand1[p] = Nil \/ mAstOperand1[p] # mAstOperand2[p]

\* no AST pointer of a live token designates a token that is not live
AstPointersLive ==
    \A n \in live :
        {mAstParent[n], mAstOperand1[n], mAstOperand2[n]} \subseteq live \cup {Nil}

\* the tokens reached from the tokens of S by following operand links, S included
RECURSIVE Below(_, _, _)
Below(h, S, fuel) ==
    IF fuel = 0 THEN S
    ELSE Below(h, S \cup ({h.mAstOperand1[n] : n \in S} \ {Nil})
                      \cup ({h.mAstOperand2[n] : n \in S} \ {Nil}),
               fuel - 1)

\* the tokens strictly below n
Operands(h, n) ==
    Below(h, {h.mAstOperand1[n], h.mAstOperand2[n]} \ {Nil}, MaxTokens)

\* following operand links from a token never comes back to it
AstAcyclic == \A n \in live : n \notin Operands(Heap, n)

\* ------------------------------------------------------------ specifications
\* the stream operations
Next ==
    \/ InsertToken \/ DeleteNext \/ DeletePrevious \/ DeleteThis \/ EraseTokens
    \/ SwapWithNext \/ Replace \/ Move

Spec == Init /\ [][Next]_vars

\* bracket links under the deleting operations
NextLink ==
    \/ InsertLinked \/ CreateMutualLinks \/ DeleteNext \/ DeletePrevious
    \/ EraseTokens

SpecLink == InitWith(FirstToken(";")) /\ [][NextLink]_vars

\* eraseTokens on a lexed stream with bracket links
NextErase == CreateMutualLinks \/ EraseTokens

SpecErase == InitLexed /\ [][NextErase]_vars

\* bracket links under swapWithNext, deleteThis and replace.  The calls are made
\* while the links are sound: a call made through a link that dangles is a use
\* after free, so the exploration ends in the state that broke the links.
NextLinkOps ==
    \/ LinksSound /\ InsertLinked
    \/ LinksSound /\ CreateMutualLinks
    \/ LinksSound /\ SwapWithNext
    \/ LinksSound /\ DeleteThis
    \/ LinksSound /\ Replace

SpecLinkOps == InitWith(FirstToken(";")) /\ [][NextLinkOps]_vars

\* the AST operations on a lexed stream
NextAst == AstOperand1 \/ AstOperand2

SpecAst == InitLexed /\ [][NextAst]_vars

\* the AST under swapWithNext.  The calls are made while the AST is consistent:
\* astTop does not return on a parent chain that runs in a circle, so the
\* exploration ends in the state that broke the AST.
NextAstSwap ==
    \/ AstConsistent /\ AstOperand1
    \/ AstConsistent /\ AstOperand2
    \/ AstConsistent /\ SwapWithNext

SpecAstSwap == InitLexedShort /\ [][NextAstSwap]_vars

\* the AST under the deleting operations.  The calls are made while no AST
\* pointer dangles: a call through one that does is a use after free.
NextAstDelete ==
    \/ AstPointersLive /\ AstOperand1
    \/ AstPointersLive /\ AstOperand2
    \/ AstPointersLive /\ DeleteNext
    \/ AstPointersLive /\ DeletePrevious
    \/ AstPointersLive /\ DeleteThis
    \/ AstPointersLive /\ EraseTokens
    \/ AstPointersLive /\ Replace

SpecAstDelete == InitLexedShort /\ [][NextAstDelete]_vars

\* ---------------------------------------------------------- position metadata
\* Token::linenr(nonneg int), Token::fileIndex(nonneg int)
linenr(h, t, v)    == [h EXCEPT !.mLineNumber[t] = v]
fileIndex(h, t, v) == [h EXCEPT !.mFileIndex[t] = v]

\* ----------------------------------------- Token::assignProgressValues (2298-2306)
\* tok2->mImpl->mProgressValue = count++ * 100 / total_count
RECURSIVE assignProgressLoop(_, _, _, _, _)
assignProgressLoop(h, tok2, count, total, fuel) ==
    IF tok2 = Nil \/ fuel = 0 THEN h
    ELSE assignProgressLoop([h EXCEPT !.mProgressValue[tok2] = (count * 100) \div total],
                            h.mNext[tok2], count + 1, total, fuel - 1)

assignProgressValues(h, tok) ==
    LET total_count == Cardinality(Walk(h, tok, Nil, MaxTokens))
    IN  assignProgressLoop(h, tok, 0, total_count, MaxTokens)

AssignProgressValues ==
    /\ Running
    /\ \E tok \in live :
         Done(assignProgressValues(Heap, tok), "assignProgressValues", "none")
    /\ UNCHANGED relinked

\* the lexer's stream with its positions: token i stands on line i, the last
\* token comes from an included file, and the progress values are assigned
RECURSIVE Positioned(_, _)
Positioned(h, i) ==
    IF i = 0 THEN h
    ELSE Positioned(fileIndex(linenr(h, i, i), i, IF i = MaxTokens THEN 1 ELSE 0), i - 1)

InitPositioned ==
    InitWith(assignProgressValues(Positioned(LexedStream(MaxTokens), MaxTokens), 1))

\* position metadata under move and replace.  The calls are made while front
\* and back designate live tokens.
FrontBackLive == front \in live /\ back \in live

NextPos ==
    \/ FrontBackLive /\ Move
    \/ FrontBackLive /\ Replace
    \/ FrontBackLive /\ AssignProgressValues

SpecPos == InitPositioned /\ [][NextPos]_vars

\* Token::Match(tok, pattern, varid) on the token at the head of a run, or on
\* nullptr when the run is empty
InitMatch ==
    /\ InitHeap(FirstToken(";"))
    /\ token = NewToken(TRUE) /\ mValues = <<>> /\ returned = "void"
    /\ superseded = "none" /\ decided = "none"
    /\ pattern \in Patterns /\ varid \in MatchVarIds /\ run \in RunsOf(MaxRun)
    /\ pp = 1 /\ cur = 1 /\ matched = "running"
    /\ NoStream

NextMatch ==
    \/ MatchEmptyPattern \/ MatchExhausted \/ MatchNoToken
    \/ MatchCharClass \/ MatchNot \/ MatchMulti

SpecMatch == InitMatch /\ [][NextMatch]_vars

\* the functions that look for the partner of an angle bracket
InitBrackets ==
    /\ InitHeap(FirstToken(";")) /\ NoMatch
    /\ token = NewToken(TRUE) /\ mValues = <<>> /\ returned = "void"
    /\ superseded = "none" /\ decided = "none"
    /\ stream \in Streams /\ self = 0 /\ found = 0
    /\ options = NoOptions /\ text = <<>>

NextBrackets == FindClosingBracket \/ FindOpeningBracket \/ FindOpeningOfClosing

SpecBrackets == InitBrackets /\ [][NextBrackets]_vars

\* the rendering of a token list
InitText ==
    /\ InitHeap(FirstToken(";")) /\ NoMatch
    /\ token = NewToken(TRUE) /\ mValues = <<>> /\ returned = "void"
    /\ superseded = "none" /\ decided = "none"
    /\ stream \in TextLists(MaxText) \ {<<>>} /\ self = 0 /\ found = 0
    /\ options = NoOptions /\ text = <<>>

SpecText == InitText /\ [][StringifyList]_vars

\* classification of one token of a C or a C++ list
InitClassify ==
    /\ InitHeap(FirstToken(";")) /\ NoMatch /\ NoStream
    /\ \E cpp \in BOOLEAN : token = NewToken(cpp)
    /\ mValues = <<>> /\ returned = "void" /\ superseded = "none"
    /\ decided = "none"

NextClassify ==
    \/ NodeStr \/ NodeVarId \/ NodeLink \/ UpdatePropertyInfo \/ Function \/ Type

SpecClassify == InitClassify /\ [][NextClassify]_vars

\* the facts of one token
SpecFacts == InitWith(FirstToken(";")) /\ [][AddValue]_vars

\* the facts of one token up to the limit of their number
SpecCap == InitWith(FirstToken(";")) /\ [][AddValueInOrder]_vars

\* the facts of one token, given in order, and impossible facts that
\* contradict many of them at once
NextPasses ==
    \/ NoBound /\ AddValueInOrder
    \/ NoBound /\ AddBound

SpecPasses == InitWith(FirstToken(";")) /\ [][NextPasses]_vars

\* ------------------------------------------------------------- stream shape
\* the tokens met by following next from t, in order
RECURSIVE Trav(_, _)
Trav(t, fuel) ==
    IF t = Nil \/ fuel = 0 THEN <<>> ELSE <<t>> \o Trav(mNext[t], fuel - 1)

\* the live tokens that have no previous
Heads == {n \in live : mPrevious[n] = Nil}

\* previous and next are mutual inverses on the live tokens
MutualInverses ==
    \A n \in live :
        /\ mNext[n] # Nil => mNext[n] \in live /\ mPrevious[mNext[n]] = n
        /\ mPrevious[n] # Nil => mPrevious[n] \in live /\ mNext[mPrevious[n]] = n

\* following next from the token without previous visits every live token once
VisitsEachOnce ==
    /\ Cardinality(Heads) = 1
    /\ \A hd \in Heads :
         LET tr == Trav(hd, MaxTokens + 1)
         IN  /\ Len(tr) = Cardinality(live)
             /\ {tr[i] : i \in 1..Len(tr)} = live

\* C1: after any sequence of insertToken, deleteNext, deletePrevious, deleteThis,
\* eraseTokens, move, replace and swapWithNext on live tokens of one stream,
\* previous and next are mutual inverses on every live token, and following next
\* from the token that has no previous visits every live token exactly once.
C1_SequenceInvariant == MutualInverses /\ VisitsEachOnce

\* a move has relinked a range of a stream of four tokens
C1_Witness ==
    /\ last = "move" /\ thrown = "none"
    /\ Cardinality(live) = 4
    /\ \E a \in live, b \in live : a > b /\ mNext[a] = b

\* C2: after every mutating operation front is the live token that has no
\* previous and back is the live token that has no next.
C2_FrontBack ==
    /\ front \in live /\ mPrevious[front] = Nil
    /\ back \in live /\ mNext[back] = Nil

\* ------------------------------------------------------------ bracket links
\* C3 as stated: with links created only by createMutualLinks(a, b), a # b, after
\* any sequence of deleteNext, deletePrevious and eraseTokens every live token
\* that carries a link has a live partner, not itself, that links back.
C3_LinksSymmetric ==
    last \in {"deleteNext", "deletePrevious", "eraseTokens"} => LinksSound

\* C3 as amended: the same, as long as createMutualLinks was only called on
\* tokens that carried no link at the time of the call; a token whose partner
\* was deleted carries no link.
C3_LinksSymmetricUnlessRelinked == ~relinked => LinksSound

\* a deleting call removed a linked token and cleared its partner's link
C3_Witness ==
    /\ ~relinked /\ unlinked
    /\ last \in {"deleteNext", "deletePrevious", "eraseTokens"}
    /\ \E a \in live : mLink[a] = Nil /\ a # front

\* C4: swapWithNext preserves bracket-link symmetry and never creates a
\* self-link, whether the two swapped tokens are unlinked, linked to third
\* tokens, or linked to each other.
C4_SwapKeepsLinks ==
    [][(LinksSound /\ last' = "swapWithNext") => LinksSound']_vars

\* C5: deleteThis on a token that carries a link clears the partner's link:
\* afterwards no live token holds a link that is not returned, and none links
\* to itself.
C5_DeleteThisKeepsLinks ==
    [][(LinksSound /\ last' = "deleteThis") => LinksSound']_vars

\* C6: replace(target, begin, end) with target linked to B breaks that link
\* before target is deleted: afterwards B's link is none and no live token
\* links to the deleted target.
C6_ReplaceBreaksLink ==
    [][(LinksSound /\ last' = "replace") =>
          \A b \in live' : mLink[b] \in live \ live' => mLink'[b] = Nil]_vars

\* ------------------------------------------------------------------ the AST
\* C7: after any sequence of astOperand1 / astOperand2 calls, for all live
\* tokens P and C: (P.operand1 = C or P.operand2 = C) iff C.parent = P, and
\* never P.operand1 = P.operand2 = C.
C7_AstConsistent == AstConsistent

\* a token with a parent and both operands, reached by a call that grafted
C7_Witness ==
    /\ last \in {"astOperand1", "astOperand2"} /\ thrown = "none"
    /\ \E p \in live :
         /\ mAstParent[p] # Nil
         /\ mAstOperand1[p] # Nil
         /\ mAstOperand2[p] # Nil

\* P is the top-most AST ancestor of C, or lies in the subtree below it
InTreeOf(h, P, C) ==
    LET top == astTop(h, C, MaxTokens + 1)
    IN  P = top \/ P \in Operands(h, top)

\* the heap after the occupant of a slot of P was detached
Detached(h, occupant) ==
    IF occupant # Nil THEN astParent(h, occupant, Nil) ELSE h

\* C8 as stated: P.astOperand1(C) / P.astOperand2(C) raises the cyclic-dependency
\* error exactly when P is the top-most AST ancestor of C or lies in the subtree
\* below that ancestor; following operand links never revisits a token.
C8_ThrowsIffInTree ==
    /\ \A P \in live, C \in live :
         /\ astOperand1(Heap, P, C)[2] = "InternalError" <=> InTreeOf(Heap, P, C)
         /\ astOperand2(Heap, P, C)[2] = "InternalError" <=> InTreeOf(Heap, P, C)
    /\ AstAcyclic

\* C8 as amended: the error is raised exactly when, once the previous occupant
\* of the assigned slot has been detached, P is the top-most AST ancestor of C
\* or lies in the subtree below that ancestor; following operand links never
\* revisits a token.
C8_ThrowsIffInTreeOnceDetached ==
    /\ \A P \in live, C \in live :
         /\ astOperand1(Heap, P, C)[2] = "InternalError"
                <=> InTreeOf(Detached(Heap, mAstOperand1[P]), P, C)
         /\ astOperand2(Heap, P, C)[2] = "InternalError"
                <=> InTreeOf(Detached(Heap, mAstOperand2[P]), P, C)
    /\ AstAcyclic

\* a call has raised the error on a tree three tokens deep
C8_Witness ==
    /\ thrown = "InternalError"
    /\ \E a \in live, b \in live, c \in live :
         mAstParent[a] = b /\ mAstParent[b] = c

\* C9: swapWithNext preserves AST parent/operand consistency when one of the
\* swapped tokens has an AST parent or AST operands.
C9_SwapKeepsAst ==
    [][(AstConsistent /\ last' = "swapWithNext") => AstConsistent']_vars

\* C10: after deleteNext, deletePrevious, deleteThis, eraseTokens or replace
\* removes a token that has an AST parent or AST operands, no live token's
\* parent, operand1 or operand2 refers to the removed token.
C10_DeleteKeepsAst ==
    [][(AstPointersLive /\ AstConsistent /\
        last' \in {"deleteNext", "deletePrevious", "deleteThis", "eraseTokens",
                   "replace"})
          => (AstPointersLive' /\ AstConsistent')]_vars

\* C11: deleteThis on the sole token of a stream (no previous, no next) does not
\* remove it: the stream still holds exactly that token, front and back still
\* designate it, and its text is cleared (empty).
C11_SoleTokenCleared ==
    [][(Cardinality(live) = 1 /\ last' = "deleteThis")
         => /\ live' = live
            /\ front' \in live' /\ back' \in live'
            /\ \A t \in live' : mStr'[t] = ""]_vars

\* the position metadata token n carries in heap h
Position(h, n) == <<h.mFileIndex[n], h.mLineNumber[n], h.mProgressValue[n]>>

\* C12: after move(srcStart, srcEnd, newLocation) every token of the moved range
\* carries newLocation's file index, line number and progress value, and after
\* replace(target, begin, end) every token of begin..end carries target's.
C12_PositionPropagated ==
    [][\A a \in live, b \in live, c \in live :
         (Reaches(Heap, a, b) /\ c \notin Range(Heap, a, b)) =>
            /\ (last' = "move" /\ thrown' = "none" /\ Heap' = move(Heap, a, b, c))
                 => \A t \in Range(Heap, a, b) : Position(Heap', t) = Position(Heap, c)
            /\ (last' = "replace" /\ Heap' = replace(Heap, c, a, b))
                 => \A t \in Range(Heap, a, b) : Position(Heap', t) = Position(Heap, c)
      ]_vars

\* the calls that end with a classification run
ClassifyOps == {"str", "varId", "link", "update_property_info"}

\* the last call ran the classification and returned
JustClassified == last \in ClassifyOps /\ thrown = "none"

\* C13: after every classification run the token's kind is eVariable iff its
\* varId is non-zero, whatever the class of its text.
C13_VariableIffVarId ==
    (JustClassified /\ token.mStr # "") => (token.mTokType = "eVariable" <=> token.mVarId # 0)

C15_ComparisonUnlessLinked ==
    JustClassified =>
        /\ token.mStr \in {"==", "!=", "<", "<=", ">", ">="}
              => (token.mTokType = "eComparisonOp" <=> ~token.mLink)
        /\ (token.mStr \in {"<", ">"} /\ token.mLink) => token.mTokType = "eBracket"
        /\ token.mStr = "<=>" => token.mTokType = "eComparisonOp"

\* a linked < was classified eBracket
C15_Witness ==
    /\ JustClassified /\ last = "link"
    /\ token.mStr = "<" /\ token.mLink /\ token.mTokType = "eBracket"

\* the kind and the flags the classification decides
KindAndFlags(k) ==
    <<k.mTokType, k.fIsControlFlowKeyword, k.fIsStandardType, k.fIsLong>>

\* C16: in every state reached through the text, varId and link setters and
\* through function() and type(), running the classification again with text,
\* varId and link as they are yields the kind and the flags the token has.
C16_ReclassifyKeepsKind ==
    (/\ thrown = "none" /\ token.mStr # ""
     /\ ~updateThrows(token) /\ ~assertFails(classified(token)))
        => KindAndFlags(classified(token)) = KindAndFlags(token)

\* x and y are facts of the same semantic kind: the same value type and, for
\* symbolic facts, the same expression
SameKind(x, y) ==
    /\ x.valueType = y.valueType
    /\ isSymbolicValue(x) => sameToken(x.tokvalue, y.tokvalue)

\* the step is a call addValue(f)
AddValueStep(f) ==
    /\ last' = "addValue"
    /\ <<mValues', returned' = "true">> = addValue(mValues, f)

\* C17: when the token holds a known fact v, addValue of a known fact of the
\* same kind with another value is rejected: it returns false and v stays.
C17_SecondKnownRejected ==
    [][\A f \in Facts, k \in 1..Len(mValues) :
          (/\ isKnown(f) /\ isKnown(mValues[k])
           /\ f.bound = "Point" /\ mValues[k].bound = "Point"
           /\ SameKind(mValues[k], f) /\ ~equalValue(mValues[k], f)
           /\ AddValueStep(f))
             => /\ returned' = "false"
                /\ \E n \in 1..Len(mValues') : mValues'[n] = mValues[k]
      ]_vars

\* C18: the list never holds two known facts of the same semantic kind with
\* unequal values.
C18_OneKnownPerKind ==
    \A i \in 1..Len(mValues), j \in 1..Len(mValues) :
        (isKnown(mValues[i]) /\ isKnown(mValues[j]) /\ SameKind(mValues[i], mValues[j]))
            => equalValue(mValues[i], mValues[j])

\* a known symbolic fact took the place of a known fact of another value
C18_Witness ==
    /\ last = "addValue" /\ returned = "true" /\ superseded = "known"
    /\ \E i \in 1..Len(mValues) : isKnown(mValues[i]) /\ isSymbolicValue(mValues[i])

\* C19: the list never holds more than 10 facts, and an addValue that would
\* need an eleventh entry (a call on a list of 10 facts of which it clears
\* none) returns false.
C19_AtMostTen ==
    [][last' = "addValue" =>
          /\ Len(mValues') <= MaxValues
          /\ \A f \in CapFacts :
                (/\ Len(mValues) = MaxValues
                 /\ ~(isKnown(f) /\ \E k \in 1..Len(mValues) : sameValueType(mValues[k], f))
                 /\ AddValueStep(f))
                   => returned' = "false"
      ]_vars

\* a call on a list of 10 facts returned false
C19_Witness ==
    Len(mValues) = MaxValues /\ last = "addValue" /\ returned = "false"

\* C20: after addValue of a known fact f returned true, f is the only fact of
\* its kind in the list.
C20_KnownSupersedes ==
    [][\A f \in Facts :
          (isKnown(f) /\ returned' = "true" /\ AddValueStep(f))
             => /\ \E n \in 1..Len(mValues') : mValues'[n] = f
                /\ \A n \in 1..Len(mValues') :
                      SameKind(mValues'[n], f) => mValues'[n] = f
      ]_vars

\* a known fact was added and cleared possible, inconclusive or impossible
\* facts of its type
C20_Witness ==
    /\ last = "addValue" /\ returned = "true" /\ superseded = "uncertain"
    /\ \E n \in 1..Len(mValues) : isKnown(mValues[n])

\* C21: addValue of a fact that is not known, on a token that holds a known
\* fact of the same kind with another value, returns false.
C21_KnownRejectsOthers ==
    [][\A f \in Facts, k \in 1..Len(mValues) :
          (/\ ~isKnown(f) /\ isKnown(mValues[k])
           /\ SameKind(mValues[k], f) /\ mValues[k].intvalue # f.intvalue
           /\ AddValueStep(f))
             => returned' = "false" /\ mValues' = mValues
      ]_vars

\* a possible, inconclusive or impossible fact was refused by a token whose
\* known fact has another value
C21_Witness ==
    /\ last = "addValue" /\ returned = "false" /\ decided = "known"
    /\ \E k \in 1..Len(mValues) : isKnown(mValues[k])

\* x is the fact y over again as the loop of addValue sees it: the same value
\* type, the same side of impossible, and an equal value
SameFact(x, y) ==
    /\ x.valueType = y.valueType
    /\ isImpossible(x) = isImpossible(y)
    /\ equalValue(x, y)

\* f takes the place of an inconclusive fact
Upgrades(x, f) == isInconclusive(x) /\ ~isInconclusive(f) /\ ~isImpossible(f)

\* C22: addValue of a fact that equals a fact of the list in kind, confidence
\* and value returns false and leaves the list as it is, unless the fact of the
\* list is inconclusive and the new one is neither inconclusive nor impossible:
\* then the new fact takes its place, nothing is appended, and true is returned.
C22_DuplicateRejected ==
    [][\A f \in Facts, k \in 1..Len(mValues) :
          (SameFact(mValues[k], f) /\ AddValueStep(f))
             => IF Upgrades(mValues[k], f)
                THEN /\ returned' = "true"
                     /\ Len(mValues') <= Len(mValues)
                     /\ \A n \in 1..Len(mValues') : mValues'[n] # mValues[k]
                ELSE returned' = "false" /\ mValues' = mValues
      ]_vars

\* C22 as amended: addValue of a fact that is not known and equals a fact of
\* the list in kind, side of impossible and value returns false and leaves the
\* list as it is, unless the first such fact of the list is inconclusive, the
\* new one is neither inconclusive nor impossible, the list holds fewer than
\* 10 facts and no known fact of the kind with another value: then the new
\* fact takes its place, nothing is appended, and true is returned.
C22_DuplicateRejectedUnlessKnown ==
    [][\A f \in Facts, k \in 1..Len(mValues) :
          (/\ ~isKnown(f) /\ SameFact(mValues[k], f)
           /\ \A j \in 1..(k - 1) : ~SameFact(mValues[j], f)
           /\ AddValueStep(f))
             => IF /\ Upgrades(mValues[k], f)
                   /\ Len(mValues) < MaxValues
                   /\ ~\E j \in 1..Len(mValues) :
                          /\ isKnown(mValues[j]) /\ sameValueType(mValues[j], f)
                          /\ ~equalValue(mValues[j], f)
                THEN /\ returned' = "true"
                     /\ Len(mValues') <= Len(mValues)
                     /\ \A n \in 1..Len(mValues') : mValues'[n] # mValues[k]
                ELSE returned' = "false" /\ mValues' = mValues
      ]_vars

\* a possible fact took the place of an inconclusive fact of its value
C22_Witness ==
    /\ last = "addValue" /\ decided = "replaced" /\ returned = "true"
    /\ \E n \in 1..Len(mValues) : isPossible(mValues[n])

\* the entry e stands for the fact f: it is f, or a range of the kind,
\* confidence and direction of f that reaches the value of f
Holds(e, f) ==
    \/ e = f
    \/ /\ SameKind(e, f) /\ e.valueKind = f.valueKind
       /\ f.bound \in {"Point", e.bound}
       /\ \/ e.bound = "Lower" /\ e.intvalue <= f.intvalue
          \/ e.bound = "Upper" /\ e.intvalue >= f.intvalue

\* C23: after an addValue(f) that returned true, the list holds f or a range
\* fact into which f was merged.
C23_TrueMeansAdded ==
    [][\A f \in Facts :
          (returned' = "true" /\ AddValueStep(f))
             => \E n \in 1..Len(mValues') : Holds(mValues'[n], f)
      ]_vars

\* the known integer facts of the list, found by a scan of the whole list
KnownInts == {k \in 1..Len(mValues) : isKnown(mValues[k]) /\ isIntValue(mValues[k])}

\* C24: a known integer fact of the list is its first entry, so that
\* hasKnownIntValue and getKnownValue(INT), which look at the first entry only,
\* answer as a scan of the whole list does.
C24_KnownIntFirst ==
    /\ KnownInts \subseteq {1}
    /\ hasKnownIntValue(mValues) = (KnownInts # {})
    /\ getKnownValue(mValues, "INT") # 0 <=> KnownInts # {}
    /\ getKnownValue(mValues, "INT") # 0 => getKnownValue(mValues, "INT") \in KnownInts

\* a known integer fact was pushed in front of the facts the list held
C24_Witness ==
    /\ last = "addValue" /\ decided = "push_front" /\ Len(mValues) >= 2
    /\ hasKnownIntValue(mValues)

\* the specifier Match is about to compare, and the spelling of the token at tok
CurWord == SubSeq(pattern, AtWord, wordEnd(pattern, AtWord) - 1)
CurStr  == chars(run[cur].mStr)

\* the alternatives of a specifier: the stretches between its bars
AltsOf(w) ==
    LET Starts == {n \in 1..(Len(w) + 1) : n = 1 \/ w[n - 1] = "|"}
        Ends   == {n \in 1..(Len(w) + 1) : n = Len(w) + 1 \/ w[n] = "|"}
    IN  {SubSeq(w, x[1], x[2] - 1) :
            x \in {y \in Starts \X Ends :
                      y[1] <= y[2] /\ \A n \in y[1]..(y[2] - 1) : w[n] # "|"}}

\* a is b cut short
ProperPrefix(a, b) == Len(a) < Len(b) /\ SubSeq(b, 1, Len(a)) = a

\* the round consumed the token: the pattern ended with it, or Match goes on
\* with the next token and the next specifier
Consumed ==
    \/ matched' = "true" /\ wordEnd(pattern, AtWord) = Len(pattern) + 1
    \/ /\ matched' = "running" /\ cur' = cur + 1
       /\ pp' = wordEnd(pattern, AtWord)

HasVarid(pat) ==
    \E i \in 1..Len(pat) : i + 6 <= Len(pat) /\ SubSeq(pat, i, i + 6) = varidCmd

NonEmptyAlts(w) == AltsOf(w) \ {<<>>}

ClosedClasses == {w \in Classes : w[Len(w)] = "]"}
MembersOf(w) == {w[n] : n \in 2..(Len(w) - 1)}

Bare == <<"!", "!">>
Plain == (Specifiers \ Optionals) \ {varCmd \o <<"|">>, Bare}

\* what the spec says of the alternative a and the token k
SatAlt(a, k) ==
    IF a = varidCmd THEN k.mVarId = varid
    ELSE IF a = varCmd THEN k.mVarId # 0
    ELSE IF a = anyCmd THEN TRUE
    ELSE IF a = nameCmd THEN isName(k)
    ELSE IF a = compCmd THEN isComparisonOp(k)
    ELSE chars(k.mStr) = a

\* what the spec says of the specifier w and the token k
Sat(w, k) ==
    IF w \in ClosedClasses
    THEN Len(chars(k.mStr)) = 1 /\ chars(k.mStr)[1] \in MembersOf(w)
    ELSE IF w \in Negations
    THEN chars(k.mStr) # SubSeq(w, 3, Len(w))
    ELSE \E a \in AltsOf(w) : SatAlt(a, k)

NameTexts == {"x", "Foo", "int", "operator", "template", "class"}
OperatorTexts == {"+", "=", "<", ">", ">>", ">>="}

\* t is a '<' behind a name, a ']' or an operator spelling
Qualifying(toks, t) ==
    /\ toks[t].mStr = "<" /\ t > 1
    /\ \/ toks[t - 1].mStr \in NameTexts
       \/ toks[t - 1].mStr = "]"
       \/ t > 2 /\ toks[t - 2].mStr = "operator" /\ toks[t - 1].mStr \in OperatorTexts
       \/ /\ t > 3 /\ toks[t - 3].mStr = "operator"
          /\ <<toks[t - 2].mStr, toks[t - 1].mStr>> \in {<<"(", ")">>, <<"[", "]">>}

RECURSIVE PathFrom(_, _)
PathFrom(toks, c) ==
    IF c \notin 1..Len(toks) THEN {}
    ELSE {c} \cup PathFrom(toks, IF toks[c].mStr \in openBrackets /\ toks[c].mLink # 0
                                 THEN toks[c].mLink + 1 ELSE c + 1)
Path == PathFrom(stream, self)

\* what ends the search without a result
Aborts(c) ==
    \/ stream[c].mStr \in closeBrackets \cup {";"}
    \/ stream[c].mStr \in openBrackets /\ stream[c].mLink = 0
Clean(c) == \A p \in Path : p < c => ~Aborts(p)

ClosingTexts == {">", ">>", ">>="}

\* the depth behind the token at c of a search that met no >> and no >>=
Opens(c) == Cardinality({p \in Path : p <= c /\ Qualifying(stream, p)})
Closes(c) == Cardinality({p \in Path : p <= c /\ stream[p].mStr = ">"})
Zero(c) == stream[c].mStr = ">" /\ Opens(c) = Closes(c)
FirstZero ==
    LET Z == {c \in Path : Zero(c)}
    IN  IF Z = {} THEN 0 ELSE CHOOSE c \in Z : \A z \in Z : c <= z

\* the first >, >> or >>= the search comes by
FirstClosing ==
    LET Z == {c \in Path : stream[c].mStr \in ClosingTexts}
    IN  IF Z = {} THEN 0 ELSE CHOOSE c \in Z : \A z \in Z : c <= z

\* no '=' stands between the start of the statement and the '<'
InDeclaration ==
    \A i \in 1..(self - 1) :
        stream[i].mStr = "=" => \E j \in i..(self - 1) : stream[j].mStr \in {";", "{", "}"}

\* no name of a template parameter is recorded during the search
NoNamedParameter ==
    stream[self - 1].mStr = "template" => \A p \in Path : stream[p].mStr \notin {",", "="}

C33_OpeningIsDual ==
    [][ ( /\ last = "findClosingBracket" /\ found # 0
          /\ stream[self].mStr = "<" /\ stream[found].mStr = ">"
          /\ last' = "findOpeningBracket" /\ self' = found )
        => found' = self ]_vars

\* ------------------------------------------------------------ rendering
\* the tokens that were written, and the words of a text: its longest runs of
\* characters without a space
Written ==
    LET e == IF options.end = 0 THEN Len(stream) ELSE options.end - 1
    IN  [i \in 1..(e - self + 1) |-> tokenAt(stream, self + i - 1)]

RECURSIVE WordsOf(_, _)
WordsOf(cs, word) ==
    IF cs = <<>> THEN IF word = <<>> THEN <<>> ELSE <<word>>
    ELSE IF Head(cs) = " "
    THEN (IF word = <<>> THEN <<>> ELSE <<word>>) \o WordsOf(Tail(cs), <<>>)
    ELSE WordsOf(Tail(cs), Append(word, Head(cs)))

RECURSIVE Joined(_)
Joined(ws) ==
    IF ws = <<>> THEN <<>>
    ELSE IF Len(ws) = 1 THEN ws[1]
    ELSE ws[1] \o <<" ">> \o Joined(Tail(ws))

Spellings == [i \in 1..Len(Written) |-> chars(Written[i].mStr)]
Spaceless(cs) == SelectSeq(cs, LAMBDA c : c # " ")
HasSpace(cs) == \E i \in 1..Len(cs) : cs[i] = " "

\* C34 as stated: without the option varid the text is the spellings in list
\* order with one space between them, and its words are the spellings.
C34_RoundTrip ==
    (last = "stringifyList" /\ ~options.varid) =>
        /\ text = Joined(Spellings)
        /\ WordsOf(text, <<>>) = Spellings

\* C34 as amended: without the option varid the text is, in list order and
\* with one space between them, the spelling of each token, a name written
\* without the spaces of its spelling; where no other token is spelled with a
\* space and no token has an empty spelling, the words of the text are these
\* spellings with the spaces of the names taken out.
C34_RoundTripModuloSpaces ==
    (last = "stringifyList" /\ ~options.varid) =>
        LET out == [i \in 1..Len(Written) |->
                      IF isName(Written[i]) THEN Spaceless(Spellings[i])
                      ELSE Spellings[i]]
        IN  /\ text = Joined(out)
            /\ (\A i \in 1..Len(Written) :
                    /\ HasSpace(Spellings[i]) => isName(Written[i])
                    /\ Spellings[i] # <<>>)
                 => WordsOf(text, <<>>) = out

\* C34 witness: a list with a name that is spelled with a space was written
\* from its first token to its end.
C34_Witness ==
    /\ last = "stringifyList" /\ ~options.varid /\ self = 1 /\ options.end = 0
    /\ Len(stream) = MaxText
    /\ \E i \in 1..Len(stream) : stream[i].mStr = "unsigned int"

\* ------------------------------------------------- contradiction resolution
\* the list addValue(value) on vals hands to removeContradictions
Handed(vals, value) ==
    LET v1 == IF isKnown(value)
              THEN SelectSeq(vals, LAMBDA x : ~sameValueType(x, value))
              ELSE vals
        it == duplicateOf(v1, value)
    IN  IF it # 0 THEN [v1 EXCEPT ![it] = value] ELSE push(v1, value)

\* the list after the first overlap removal and k passes, each followed by an
\* overlap removal
RECURSIVE Round(_, _)
Round(s, k) ==
    IF k = 0 THEN removeOverlaps(s)
    ELSE removeOverlaps(removeContradiction(Round(s, k - 1))[1])

\* a further pass would change nothing
Settled(s, k) == removeContradiction(Round(s, k))[1] = Round(s, k)

\* the number of passes that change the list, 4 at most
Rounds(s) ==
    CHOOSE k \in 0..4 : /\ k = 4 \/ Settled(s, k)
                        /\ \A n \in 0..(k - 1) : ~Settled(s, n)

\* e is x, or the range x made narrower
Narrowed(e, x) ==
    \/ e = x
    \/ /\ x.bound # "Point" /\ [e EXCEPT !.intvalue = x.intvalue] = x
       /\ IF x.bound = "Lower" THEN e.intvalue > x.intvalue ELSE e.intvalue < x.intvalue

\* r is s with entries erased and ranges made narrower
RemovedOrNarrowed(s, r) ==
    /\ Len(r) <= Len(s)
    /\ \A i \in 1..Len(r) : \E j \in i..Len(s) : Narrowed(r[i], s[j])

PassFacts == CapFacts \cup BoundFacts

C36_RejectedKeepsList ==
    [][(last' = "addValue" /\ returned' = "false") => mValues' = mValues]_vars

\* C36 witness: a fact was given to a token with 10 facts, none of them
\* known, and rejected by the limit.
C36_Witness ==
    /\ last = "addValue" /\ returned = "false" /\ decided = "full"
    /\ Len(mValues) = MaxValues
    /\ \A k \in 1..Len(mValues) : ~isKnown(mValues[k])

\* ------------------------------------------------------- the AST after a throw
\* C37: when astOperand1 or astOperand2 ends with the cyclic-dependency error,
\* the AST is as it was before the call: every parent and operand pointer is
\* unchanged, so the token that was in the operand slot is still there.
C37_ThrowKeepsAst ==
    [][(last' \in {"astOperand1", "astOperand2"} /\ thrown' = "InternalError") =>
          /\ mAstParent' = mAstParent
          /\ mAstOperand1' = mAstOperand1
          /\ mAstOperand2' = mAstOperand2
      ]_vars

\* ------------------------------------------------------------- simpleMatch
\* a pattern of words without '%', '|', '[' and '!', one space between them
LiteralPattern(pat) ==
    /\ pat # <<>> /\ pat[1] # " " /\ pat[Len(pat)] # " "
    /\ \A i \in 1..Len(pat) : pat[i] \notin {"%", "|", "[", "!"}
    /\ \A i \in 1..(Len(pat) - 1) : ~(pat[i] = " " /\ pat[i + 1] = " ")

Between(h, begin, end) == Range(h, begin, end) \ {begin, end}

\* end is a token of the stream that comes after begin
ErasableRange(h, begin, end) ==
    /\ begin \in h.live /\ end \in h.live /\ begin # end
    /\ Reaches(h, begin, end)

\* exactly the tokens between begin and end are gone, begin and end are
\* neighbours, and every other field but the bracket links is as it was
ErasedBetween(h, g, begin, end) ==
    /\ g.live = h.live \ Between(h, begin, end)
    /\ g.mNext[begin] = end /\ g.mPrevious[end] = begin
    /\ g.front = h.front /\ g.back = h.back
    /\ \A n \in g.live :
         /\ n # begin => g.mNext[n] = h.mNext[n]
         /\ n # end => g.mPrevious[n] = h.mPrevious[n]
         /\ g.mStr[n] = h.mStr[n]
         /\ Position(g, n) = Position(h, n)
         /\ g.mAstParent[n] = h.mAstParent[n]
         /\ g.mAstOperand1[n] = h.mAstOperand1[n]
         /\ g.mAstOperand2[n] = h.mAstOperand2[n]

\* C39 as stated: eraseTokens(begin, end) with end after begin removes exactly
\* the tokens strictly between them, makes begin and end neighbours and leaves
\* begin, end and every token outside the range as they were, bracket links
\* included; with begin none or begin = end it changes nothing.
C39_EraseFrame ==
    [][last' = "eraseTokens" =>
       \A begin \in live \cup {Nil}, end \in live \cup {Nil} :
         Heap' = eraseTokens(Heap, begin, end) =>
            /\ (begin = Nil \/ begin = end) => Heap' = Heap
            /\ ErasableRange(Heap, begin, end) =>
                 /\ ErasedBetween(Heap, Heap', begin, end)
                 /\ \A n \in live' : mLink'[n] = mLink[n]
      ]_vars

\* C39 as amended: the same, except that a remaining token whose bracket
\* partner was removed, and linked back to it, carries no link afterwards.
C39_EraseFrameUnlessUnlinked ==
    [][last' = "eraseTokens" =>
       \A begin \in live \cup {Nil}, end \in live \cup {Nil} :
         Heap' = eraseTokens(Heap, begin, end) =>
            /\ (begin = Nil \/ begin = end) => Heap' = Heap
            /\ ErasableRange(Heap, begin, end) =>
                 /\ ErasedBetween(Heap, Heap', begin, end)
                 /\ \A n \in live' :
                      mLink'[n] = IF /\ mLink[n] \in Between(Heap, begin, end)
                                     /\ mLink[mLink[n]] = n
                                  THEN Nil ELSE mLink[n]
      ]_vars

\* C39 witness: eraseTokens has removed the tokens between the first and the
\* last token, one of them the bracket partner of a token that remains.
C39_Witness ==
    /\ last = "eraseTokens" /\ unlinked
    /\ front # back /\ mNext[front] = back /\ mPrevious[back] = front
    /\ live = {front, back}

====
